---------------------------- MODULE Spec2Model ----------------------------
(***************************************************************************)
(* Build accumulation and cross-section geometry of process/io/plot_proc.py *)
(*                                                                         *)
(* The state is one resolver (the MFILE data), one PlotData instance, and  *)
(* the outcome of the last call: its return value, the diagnostics it      *)
(* printed, the exception it raised and the shapes it handed to the axis.  *)
(* Lengths are integers; curve points are fixed-point numbers with Scale   *)
(* units per length unit, angles are in 1/Scale radians.                   *)
(***************************************************************************)
EXTENDS Integers, Sequences, FiniteSets, TLC

VARIABLES
    mfile,      \* the resolver: [keys : set of names present, vals : name -> value]
    plot_data,  \* the PlotData instance handed to the plotting functions
    last,       \* the call that produced the outcome below, "idle" between calls
    args,       \* the arguments of that call
    ret,        \* its return value, as a sequence of numbers (or of tables)
    log,        \* the diagnostics it printed or logged, in order
    err,        \* the exception it raised, "none" when it returned
    sink,       \* the shapes it handed to the axis, in order
    trace,      \* history: the values a running total took, one per loop iteration;
                \* for a cross-section, the components that drew, in order; for
                \* the line colours, every call made with the colour it returned
    colour_map, \* tracking_data.colour_map: run title -> colour
    colours     \* tracking_data.colours: the place of the cycle in the palette

vars == <<mfile, plot_data, last, args, ret, log, err, sink, trace, colour_map, colours>>

---------------------------------------------------------------------------
(* Bounds of the model *)

\* segment values range over MinVal..MaxVal; MinVal is negative so that the
\* "non-negative thickness" assumption of the monotonicity claim is a real one
MaxVal == 2

MinVal == 0 - 1

Vals == MinVal..MaxVal

---------------------------------------------------------------------------
(* The ordered segment tables *)

RADIAL_BUILD ==
    << "bore", "ohcth", "precomp", "gapoh", "tfcth", "tftsgap",
       "thshield_ib", "gapds", "d_vv_in", "shldith", "vvblgapi", "blnkith",
       "fwith", "scrapli", "rminori", "rminoro", "scraplo", "fwoth",
       "blnkoth", "vvblgapo", "shldoth", "d_vv_out", "gapsto",
       "thshield_ob", "tftsgap", "tfthko" >>

vertical_upper ==
    << "rminor*kappa", "vgaptop", "fwtth", "blnktth", "vvblgap", "shldtth",
       "d_vv_top", "vgap2", "thshield_vb", "tftsgap", "tfcth" >>

vertical_lower ==
    << "rminor*kappa", "vgap", "divfix", "shldlth", "d_vv_bot", "vgap2",
       "thshield_vb", "tftsgap", "tfcth" >>

Range(s) == {s[i] : i \in 1..Len(s)}

\* a name that is in none of the tables, for the "not found" path
NoSuchSection == "no_such_section"

\* the names the modelled code may ask the resolver for
Flags == {"i_single_null", "triang95"}

Keys == Range(RADIAL_BUILD) \cup Range(vertical_upper) \cup Range(vertical_lower)
            \cup Flags \cup {"rminor"}

\* names of RADIAL_BUILD that a real MFILE does not hold: they are aliases
AliasNames == {"rminori", "rminoro", "vvblgapi", "vvblgapo"}

---------------------------------------------------------------------------
(* The resolver (process.io.mfile) *)

\* "name in m_file.data"
Exists(m, k) == k \in m.keys

\* m_file.data[name].get_scan(scan): the value; a name the MFILE does not
\* hold gives 0 (and the resolver logs the missing key, see MissingLog)
GetScan(m, k) == IF k \in m.keys THEN m.vals[k] ELSE 0

\* the diagnostic the resolver logs for a lookup of name k
MissingLog(m, k) == IF k \in m.keys THEN << >> ELSE << <<"missing", k>> >>

---------------------------------------------------------------------------
(* cumulative_radial_build *)

\* (mutant) no alias rule: every name is looked up under its own name
BuildOwnName(item, m, pd) == GetScan(m, item)

\* the value one item of RADIAL_BUILD adds: the alias rules, then the resolver.
\* ("d_vv_in" in item) is a substring test; "d_vv_in" and "d_vv_out" are the
\* only names of RADIAL_BUILD that contain these substrings.
Build(item, m, pd) ==
    IF item = "rminori" \/ item = "rminoro" THEN pd.rminor
    ELSE IF item = "vvblgapi" \/ item = "vvblgapo" THEN pd.vvblgap
    ELSE IF item = "d_vv_in" THEN pd.d_vv_in
    ELSE IF item = "d_vv_out" THEN pd.d_vv_out
    ELSE GetScan(m, item)

\* TRUE when Build(item, ..) goes to the resolver (the final else branch)
FromResolver(item) ==
    item \notin {"rminori", "rminoro", "vvblgapi", "vvblgapo", "d_vv_in", "d_vv_out"}

\* what the resolver logs while Build(item, ..) runs
BuildLog(item, m) == IF FromResolver(item) THEN MissingLog(m, item) ELSE << >>

\* the locals of cumulative_radial_build before the loop
CrbStart ==
    [cumulative_build |-> 0, build |-> 0, complete |-> FALSE, log |-> << >>,
     trace |-> << >>]

\* (mutant) the test for the requested section comes before the addition
RECURSIVE CrbWalkBreakBeforeAdd(_, _, _, _, _)
CrbWalkBreakBeforeAdd(section, m, pd, i, acc) ==
    IF i > Len(RADIAL_BUILD) THEN acc
    ELSE LET item == RADIAL_BUILD[i]
             b    == Build(item, m, pd)
         IN  IF item = section
               THEN [acc EXCEPT !.build = b, !.complete = TRUE,
                                !.log = acc.log \o BuildLog(item, m),
                                !.trace = Append(acc.trace, acc.cumulative_build)]
             ELSE CrbWalkBreakBeforeAdd(section, m, pd, i + 1,
                     [cumulative_build |-> acc.cumulative_build + b,
                      build            |-> b,
                      complete         |-> FALSE,
                      log              |-> acc.log \o BuildLog(item, m),
                      trace            |-> Append(acc.trace, acc.cumulative_build + b)])

\* (mutant) the loop leaves out the last entry of RADIAL_BUILD
RECURSIVE CrbWalkSkipsLast(_, _, _, _, _)
CrbWalkSkipsLast(section, m, pd, i, acc) ==
    IF i > Len(RADIAL_BUILD) - 1 THEN acc
    ELSE LET item == RADIAL_BUILD[i]
             b    == Build(item, m, pd)
             nxt  == [cumulative_build |-> acc.cumulative_build + b,
                      build            |-> b,
                      complete         |-> (item = section),
                      log              |-> acc.log \o BuildLog(item, m),
                      trace            |-> Append(acc.trace, acc.cumulative_build + b)]
         IN  IF item = section THEN nxt
             ELSE CrbWalkSkipsLast(section, m, pd, i + 1, nxt)

\* (mutant) the loop ends at the first segment the resolver does not hold
RECURSIVE CrbWalkStopsAtMissing(_, _, _, _, _)
CrbWalkStopsAtMissing(section, m, pd, i, acc) ==
    IF i > Len(RADIAL_BUILD) THEN acc
    ELSE LET item == RADIAL_BUILD[i]
             b    == Build(item, m, pd)
             nxt  == [cumulative_build |-> acc.cumulative_build + b,
                      build            |-> b,
                      complete         |-> (item = section),
                      log              |-> acc.log \o BuildLog(item, m),
                      trace            |-> Append(acc.trace, acc.cumulative_build + b)]
         IN  IF item = section \/ BuildLog(item, m) # << >> THEN nxt
             ELSE CrbWalkStopsAtMissing(section, m, pd, i + 1, nxt)

\* the body of the for loop, for the item at position i, and the rest of the loop
RECURSIVE CrbWalk(_, _, _, _, _)
CrbWalk(section, m, pd, i, acc) ==
    IF i > Len(RADIAL_BUILD) THEN acc
    ELSE LET item == RADIAL_BUILD[i]
             b    == Build(item, m, pd)
             nxt  == [cumulative_build |-> acc.cumulative_build + b,
                      build            |-> b,
                      complete         |-> (item = section),
                      log              |-> acc.log \o BuildLog(item, m),
                      trace            |-> Append(acc.trace, acc.cumulative_build + b)]
         IN  IF item = section THEN nxt
             ELSE CrbWalk(section, m, pd, i + 1, nxt)

\* (mutant) the diagnostic is printed whatever verbose says
CrbDiagAlways(section, complete, verbose) ==
    IF ~complete THEN << <<"not found", section>> >> ELSE << >>

\* "if not complete and verbose: print(...)"
CrbDiag(section, complete, verbose) ==
    IF ~complete /\ verbose THEN << <<"not found", section>> >> ELSE << >>

\* (mutant) the second element is the last segment's value, not the sum before it
CrbReturnBuild(cumulative_build, build, with_previous) ==
    IF with_previous THEN <<cumulative_build, build>>
    ELSE <<cumulative_build>>

\* the return statement
CrbReturn(cumulative_build, build, with_previous) ==
    IF with_previous THEN <<cumulative_build, cumulative_build - build>>
    ELSE <<cumulative_build>>

\* the whole function: the return value, what was printed or logged, and
\* (history) the values cumulative_build took
cumulative_radial_build(section, m, pd, with_previous, verbose) ==
    LET w == CrbWalk(section, m, pd, 1, CrbStart)
    IN  [ret      |-> CrbReturn(w.cumulative_build, w.build, with_previous),
         log      |-> w.log \o CrbDiag(section, w.complete, verbose),
         complete |-> w.complete,
         trace    |-> w.trace]

\* the plain call the plotting functions make: cumulative_radial_build(name, ...)
Crb(section, m, pd) == cumulative_radial_build(section, m, pd, FALSE, TRUE).ret[1]

---------------------------------------------------------------------------
(* PlotData.create_radial_build *)

VertStart == [vals |-> << >>, cum |-> << >>, subtotal |-> 0, log |-> << >>]

\* (mutant) the cumulative entry is stored before the addition
RECURSIVE UpperWalkStale(_, _, _)
UpperWalkStale(m, i, acc) ==
    IF i > Len(vertical_upper) THEN acc
    ELSE LET item == vertical_upper[i]
             v    == GetScan(m, item)
             sub  == acc.subtotal + v
         IN  UpperWalkStale(m, i + 1,
                 [vals     |-> (item :> v) @@ acc.vals,
                  cum      |-> (item :> acc.subtotal) @@ acc.cum,
                  subtotal |-> sub,
                  log      |-> acc.log \o MissingLog(m, item)])

\* "for item in vertical_upper": upper[item], subtotal += upper[item]
RECURSIVE UpperWalk(_, _, _)
UpperWalk(m, i, acc) ==
    IF i > Len(vertical_upper) THEN acc
    ELSE LET item == vertical_upper[i]
             v    == GetScan(m, item)
             sub  == acc.subtotal + v
         IN  UpperWalk(m, i + 1,
                 [vals     |-> (item :> v) @@ acc.vals,
                  cum      |-> (item :> sub) @@ acc.cum,
                  subtotal |-> sub,
                  log      |-> acc.log \o MissingLog(m, item)])

\* (mutant) the lower table is accumulated with the sign of the upper one
RECURSIVE LowerWalkAdds(_, _, _)
LowerWalkAdds(m, i, acc) ==
    IF i > Len(vertical_lower) THEN acc
    ELSE LET item == vertical_lower[i]
             v    == GetScan(m, item)
             sub  == acc.subtotal + v
         IN  LowerWalkAdds(m, i + 1,
                 [vals     |-> (item :> v) @@ acc.vals,
                  cum      |-> (item :> sub) @@ acc.cum,
                  subtotal |-> sub,
                  log      |-> acc.log \o MissingLog(m, item)])

\* "for item in vertical_lower": lower[item], subtotal -= lower[item]
RECURSIVE LowerWalk(_, _, _)
LowerWalk(m, i, acc) ==
    IF i > Len(vertical_lower) THEN acc
    ELSE LET item == vertical_lower[i]
             v    == GetScan(m, item)
             sub  == acc.subtotal - v
         IN  LowerWalk(m, i + 1,
                 [vals     |-> (item :> v) @@ acc.vals,
                  cum      |-> (item :> sub) @@ acc.cum,
                  subtotal |-> sub,
                  log      |-> acc.log \o MissingLog(m, item)])

\* the four tables, in the order the function returns them, and the log
create_radial_build(m) ==
    LET u == UpperWalk(m, 1, VertStart)
        l == LowerWalk(m, 1, VertStart)
    IN  [upper |-> u.vals, lower |-> l.vals,
         cumulative_upper |-> u.cum, cumulative_lower |-> l.cum,
         log |-> u.log \o l.log]

---------------------------------------------------------------------------
(* Fixed-point arithmetic: a number x is held as the integer nearest to     *)
(* x * Scale; angles are in radians, held the same way                      *)

Scale == 10 * 10 * 10

Abs(x) == IF x < 0 THEN 0 - x ELSE x

Sign(x) == IF x < 0 THEN 0 - 1 ELSE 1

\* a / b rounded to the nearest integer, symmetric in the signs as floating
\* point division is; b is not 0
FDiv(a, b) == Sign(a) * Sign(b) * ((2 * Abs(a) + Abs(b)) \div (2 * Abs(b)))

\* the product of two fixed-point numbers
FMul(x, y) == FDiv(x * y, Scale)

\* np.pi, and its half; Pi is even so that HalfPi is exactly its half
Pi == 2 * FDiv(Scale * 355, 226)

HalfPi == Pi \div 2

\* sin on [0, pi/4] and cos on [0, pi/4], by their series
SinSeries(x) ==
    LET x2 == FMul(x, x)
    IN  FMul(x, Scale - FDiv(x2, 6) + FDiv(FMul(x2, x2), 120)
                  - FDiv(FMul(FMul(x2, x2), x2), 5040))

CosSeries(x) ==
    LET x2 == FMul(x, x)
    IN  Scale - FDiv(x2, 2) + FDiv(FMul(x2, x2), 24)
          - FDiv(FMul(FMul(x2, x2), x2), 720)

\* sin on [0, pi/2]: exactly 0 at 0 and exactly 1 at pi/2
SinQuarter(x) ==
    IF 2 * x <= HalfPi THEN SinSeries(x) ELSE CosSeries(HalfPi - x)

\* sin on [0, pi]
SinHalf(x) == IF x > HalfPi THEN SinQuarter(Pi - x) ELSE SinQuarter(x)

\* sin on one period [0, 2 pi)
SinPeriod(y) == IF y >= Pi THEN 0 - SinHalf(y - Pi) ELSE SinHalf(y)

SinTable == [y \in 0..(2 * Pi - 1) |-> SinPeriod(y)]

\* np.sin and np.cos
Sin(x) == SinTable[x % (2 * Pi)]

Cos(x) == Sin(x + HalfPi)

\* np.linspace(a, b, n, endpoint=True)
Linspace(a, b, n) ==
    [k \in 1..n |-> IF k = n THEN b ELSE a + FDiv((b - a) * (k - 1), n - 1)]

Reverse(s) == [k \in 1..Len(s) |-> s[Len(s) + 1 - k]]

Negate(s) == [k \in 1..Len(s) |-> 0 - s[k]]

---------------------------------------------------------------------------
(* The curve constructors *)

\* the number of samples of np.linspace in plotdh and plotdhgap
NPts == 50

\* a length, and the half of a sum or difference of lengths ("/ 2.0")
Fx(x) == x * Scale

Half(x) == FDiv(Fx(x), 2)

\* the quotient of two lengths, as a fixed-point ratio; den is not 0
Ratio(num, den) == FDiv(num * Scale, den)

\* r0 + a * cos(angs + delta * sin(angs)) and kap * a * sin(angs)
DArcR(r0, a, delta, angs) ==
    [k \in 1..Len(angs) |-> r0 + FMul(a, Cos(angs[k] + FMul(delta, Sin(angs[k]))))]

DArcZ(a, kap, angs) ==
    [k \in 1..Len(angs) |-> FMul(FMul(kap, a), Sin(angs[k]))]

\* a shape handed to the axis: the call (plot or fill), its colour and
\* points, and (history) the half of the machine the calling code builds it for
Shape(op, color, rs, zs, half) ==
    [op |-> op, color |-> color, rs |-> rs, zs |-> zs, half |-> half]

\* the outcome of a plotting function: the shapes drawn and the exception
Done(shapes) == [sink |-> shapes, err |-> "none"]

Raise(shapes, e) == [sink |-> shapes, err |-> e]

\* plotdh(axis, r0, a, delta, kap): the points, and the line it plots
plotdh(r0, a, delta, kap) ==
    LET angs == Linspace(0, Pi, NPts)
    IN  [rs |-> DArcR(r0, a, delta, angs), zs |-> DArcZ(a, kap, angs)]

PlotdhLine(c, half) == Shape("plot", "black", c.rs, c.zs, half)

\* the polygon of two plotdh curves: the first forward, the second reversed
Stitch(c1, c2) ==
    [rs |-> c1.rs \o Reverse(c2.rs), zs |-> c1.zs \o Reverse(c2.zs)]

\* the one element of a singleton: its element is worked out once
Only(S) == CHOOSE x \in S : TRUE

\* the arcs of plotdhgap, once the two divisions have been done
GapArcs(r01, r02, a1, a2, kap1, kap2, delta) ==
    LET arc   == FDiv(Pi, 4)
        angsO == Linspace(0, HalfPi - FDiv(arc, 2), NPts)
        angsI == Linspace(Pi, Pi + (HalfPi - arc), NPts)
        rs1   == DArcR(r01, a1, delta, angsO)
        zs1   == DArcZ(a1, kap1, angsO)
        rs2   == DArcR(r02, a2, delta, angsO)
        zs2   == DArcZ(a2, kap2, angsO)
        rs3   == DArcR(r01, a1, delta, angsI)
        zs3   == DArcZ(a1, kap1, angsI)
        rs4   == DArcR(r02, a2, delta, angsI)
        zs4   == DArcZ(a2, kap2, angsI)
    IN  [outR |-> rs1 \o Reverse(rs2), outZ |-> zs1 \o Reverse(zs2),
         inR  |-> rs3 \o Reverse(rs4), inZ  |-> Negate(zs3 \o Reverse(zs4))]

\* the four calls of plotdhgap on its arcs g: plot, plot, fill, fill
GapShapes(g, col, half) ==
    << Shape("plot", "black", g.outR, g.outZ, half),
       Shape("plot", "black", g.inR, g.inZ, half),
       Shape("fill", col, g.outR, g.outZ, half),
       Shape("fill", col, g.inR, g.inZ, half) >>

\* plotdhgap(axis, inpt, outpt, inthk, outthk, toppt, topthk, delta, col),
\* appended to the shapes drawn so far; the arguments are lengths
plotdhgap(shapes, inpt, outpt, inthk, outthk, toppt, topthk, delta, col, half) ==
    LET r01 == Half(inpt + outpt)
        r02 == Half(inpt + inthk + outpt - outthk)
        a1  == r01 - Fx(inpt)
        a2  == r02 - Fx(inpt) - Fx(inthk)
    IN  IF a1 = 0 \/ a2 = 0 THEN Raise(shapes, "ZeroDivisionError")
        ELSE Only({Done(shapes \o GapShapes(g, col, half)) :
                     g \in {GapArcs(r01, r02, a1, a2, Ratio(Fx(toppt), a1),
                                    Ratio(Fx(toppt - topthk), a2), delta)}})

---------------------------------------------------------------------------
(* The component renderers of the poloidal cross-section *)

\* the fields the PlotData dataclass declares
PlotDataDeclared ==
    {"bore", "ohcth", "gapoh", "tfcth", "gapds", "ddwi", "shldith",
     "blnkith", "fwith", "scrapli", "rmajor", "rminor", "scraplo", "fwoth",
     "blnkoth", "shldoth", "gapsto", "tfthko", "rdewex", "zdewex", "ddwex",
     "vvblgap", "d_vv_in", "d_vv_out", "fwtth", "n_tf", "wwp1", "wwp2",
     "dr_tf_wp", "tinstf", "thkcas", "casthi", "nbshield", "rtanbeam",
     "rtanmax", "beamwd", "ipedestal", "neped", "nesep", "rhopedn",
     "rhopedt", "tbeta", "teped", "tesep", "alphan", "alphat", "ne0",
     "te0", "triang", "triang95", "kappa95", "alphaj", "q0", "q95",
     "kallenbach_switch", "ssync", "bt", "vol", "pgrossmw", "pthermmw",
     "htpmw", "pnetelmw", "powfmw", "crypmw", "i_single_null", "upper",
     "cumulative_upper", "lower", "cumulative_lower"}

\* plot_data.<name> raises AttributeError unless the dataclass declares name
HasAttr(name) == name \in PlotDataDeclared

vessel == "green"

shield == "green"

blanket == "magenta"

firstwall == "darkblue"

\* what plot_vacuum_vessel would read if the thickness of the vessel's top and
\* bottom were taken as 0
VesselReadsThin(m, pd) ==
    [i_single_null |-> GetScan(m, "i_single_null"),
     triang    |-> GetScan(m, "triang95"),
     c_d_vv_out |-> Crb("d_vv_out", m, pd),
     c_gapds   |-> Crb("gapds", m, pd),
     c_shldoth |-> Crb("shldoth", m, pd),
     c_d_vv_in |-> Crb("d_vv_in", m, pd),
     cu_top    |-> pd.cumulative_upper["d_vv_top"],
     cl_bot    |-> pd.cumulative_lower["d_vv_bot"],
     u_top     |-> 0,
     l_bot     |-> 0]

\* what plot_vacuum_vessel reads from the resolver, the PlotData instance and
\* cumulative_radial_build
VesselReads(m, pd) ==
    [i_single_null |-> GetScan(m, "i_single_null"),
     triang    |-> GetScan(m, "triang95"),
     c_d_vv_out |-> Crb("d_vv_out", m, pd),
     c_gapds   |-> Crb("gapds", m, pd),
     c_shldoth |-> Crb("shldoth", m, pd),
     c_d_vv_in |-> Crb("d_vv_in", m, pd),
     cu_top    |-> pd.cumulative_upper["d_vv_top"],
     cl_bot    |-> pd.cumulative_lower["d_vv_bot"],
     u_top     |-> pd.upper["d_vv_top"],
     l_bot     |-> pd.lower["d_vv_bot"]]

\* the body of plot_vacuum_vessel on the values v it has read
VesselDraw(v) ==
    LET \* outer side (furthest from plasma)
        radx1  == Half(v.c_d_vv_out + v.c_gapds)
        rminx1 == Half(v.c_d_vv_out - v.c_gapds)
        \* inner side (nearest to the plasma)
        radx2  == Half(v.c_shldoth + v.c_d_vv_in)
        rminx2 == Half(v.c_shldoth - v.c_d_vv_in)
    IN  IF rminx1 = 0 THEN Raise(<< >>, "ZeroDivisionError")
        ELSE
        LET outerU == plotdh(radx1, rminx1, v.triang, Ratio(Fx(v.cu_top), rminx1))
            outerL == plotdh(radx1, rminx1, v.triang, Ratio(Fx(v.cl_bot), rminx1))
            s1 == (IF v.i_single_null = 1 THEN << PlotdhLine(outerU, "upper") >>
                   ELSE << >>)
                    \o << PlotdhLine(outerL, "lower") >>
        IN  IF rminx2 = 0 THEN Raise(s1, "ZeroDivisionError")
            ELSE
            LET innerU == plotdh(radx2, rminx2, v.triang,
                              Ratio(Fx(v.cu_top - v.u_top), rminx2))
                innerL == plotdh(radx2, rminx2, v.triang,
                              Ratio(Fx(v.cl_bot + v.l_bot), rminx2))
                up == Stitch(outerU, innerU)
                lo == Stitch(outerL, innerL)
            IN  Done(s1
                  \o (IF v.i_single_null = 1
                        THEN << PlotdhLine(innerU, "upper") >> ELSE << >>)
                  \o << PlotdhLine(innerL, "lower") >>
                  \o (IF v.i_single_null = 1
                        THEN << Shape("fill", vessel, up.rs, up.zs, "upper") >> ELSE << >>)
                  \o << Shape("fill", vessel, lo.rs, lo.zs, "lower") >>
                  \o (IF v.i_single_null = 0
                        THEN << Shape("fill", vessel, lo.rs, Negate(lo.zs), "mirror") >>
                        ELSE << >>))

\* plot_vacuum_vessel(axis, mfile_data, plot_data, scan)
plot_vacuum_vessel(m, pd) == Only({VesselDraw(v) : v \in {VesselReads(m, pd)}})

\* what plot_shield reads
ShieldReads(m, pd) ==
    [i_single_null |-> GetScan(m, "i_single_null"),
     triang     |-> GetScan(m, "triang95"),
     c_shldoth  |-> Crb("shldoth", m, pd),
     c_d_vv_in  |-> Crb("d_vv_in", m, pd),
     c_vvblgapo |-> Crb("vvblgapo", m, pd),
     c_shldith  |-> Crb("shldith", m, pd),
     cu_shldtth |-> pd.cumulative_upper["shldtth"],
     cu_vvblgap |-> pd.cumulative_upper["vvblgap"],
     cl_shldlth |-> pd.cumulative_lower["shldlth"],
     cl_divfix  |-> pd.cumulative_lower["divfix"]]

\* the body of plot_shield on the values v it has read
ShieldDraw(v) ==
    LET \* side furthest from plasma
        radx1  == Half(v.c_shldoth + v.c_d_vv_in)
        rminx1 == Half(v.c_shldoth - v.c_d_vv_in)
        \* side nearest to the plasma
        radx2  == Half(v.c_vvblgapo + v.c_shldith)
        rminx2 == Half(v.c_vvblgapo - v.c_shldith)
    IN  IF rminx1 = 0 THEN Raise(<< >>, "ZeroDivisionError")
        ELSE
        LET outerU == plotdh(radx1, rminx1, v.triang, Ratio(Fx(v.cu_shldtth), rminx1))
            outerL == plotdh(radx1, rminx1, v.triang, Ratio(Fx(v.cl_shldlth), rminx1))
            s1 == (IF v.i_single_null = 1 THEN << PlotdhLine(outerU, "upper") >>
                   ELSE << >>)
                    \o << PlotdhLine(outerL, "lower") >>
        IN  IF rminx2 = 0 THEN Raise(s1, "ZeroDivisionError")
            ELSE
            LET innerU == plotdh(radx2, rminx2, v.triang,
                              Ratio(Fx(v.cu_vvblgap), rminx2))
                innerL == plotdh(radx2, rminx2, v.triang,
                              Ratio(Fx(v.cl_divfix), rminx2))
                up == Stitch(outerU, innerU)
                lo == Stitch(outerL, innerL)
            IN  Done(s1
                  \o (IF v.i_single_null = 1
                        THEN << PlotdhLine(innerU, "upper"),
                                Shape("fill", shield, up.rs, up.zs, "upper") >>
                        ELSE << >>)
                  \o << PlotdhLine(innerL, "lower"),
                        Shape("fill", shield, lo.rs, lo.zs, "lower") >>
                  \o (IF v.i_single_null = 0
                        THEN << Shape("fill", shield, lo.rs, Negate(lo.zs), "mirror") >>
                        ELSE << >>))

\* plot_shield(axis, mfile_data, plot_data, scan)
plot_shield(m, pd) == Only({ShieldDraw(v) : v \in {ShieldReads(m, pd)}})

\* what plot_blanket reads
BlanketReads(m, pd) ==
    [triang     |-> pd.triang,
     blnkoth    |-> pd.blnkoth,
     blnkith    |-> pd.blnkith,
     i_single_null |-> pd.i_single_null,
     c_blnkoth  |-> Crb("blnkoth", m, pd),
     c_vvblgapi |-> Crb("vvblgapi", m, pd),
     c_fwoth    |-> Crb("fwoth", m, pd),
     c_blnkith  |-> Crb("blnkith", m, pd),
     c_shldith  |-> Crb("shldith", m, pd),
     cu_blnktth |-> pd.cumulative_upper["blnktth"],
     cu_fwtth   |-> pd.cumulative_upper["fwtth"],
     blnktth    |-> GetScan(m, "blnktth"),
     divgap     |-> pd.cumulative_lower["divfix"]]

\* the body of plot_blanket on the values v it has read
BlanketDraw(v) ==
    LET \* upper blanket: outer surface
        radx1  == Half(v.c_blnkoth + v.c_vvblgapi)
        rminx1 == Half(v.c_blnkoth - v.c_vvblgapi)
        \* upper blanket: inner surface
        radx2  == Half(v.c_fwoth + v.c_blnkith)
        rminx2 == Half(v.c_fwoth - v.c_blnkith)
        outerU == plotdh(radx1, rminx1, v.triang, Ratio(Fx(v.cu_blnktth), rminx1))
        innerU == plotdh(radx2, rminx2, v.triang, Ratio(Fx(v.cu_fwtth), rminx2))
        up == Stitch(outerU, innerU)
    IN  IF v.i_single_null = 1 /\ rminx1 = 0 THEN Raise(<< >>, "ZeroDivisionError")
        ELSE IF v.i_single_null = 1 /\ rminx2 = 0
          THEN Raise(<< PlotdhLine(outerU, "upper") >>, "ZeroDivisionError")
        ELSE
        LET s1 == IF v.i_single_null = 1
                    THEN << PlotdhLine(outerU, "upper"), PlotdhLine(innerU, "upper"),
                            Shape("fill", blanket, up.rs, up.zs, "upper") >>
                    ELSE << >>
            \* lower blanket
            lo == plotdhgap(s1, v.c_shldith, v.c_blnkoth, v.blnkith, v.blnkoth,
                            v.divgap, 0 - v.blnktth, v.triang, blanket, "lower")
        IN  Only({IF l.err # "none" \/ v.i_single_null # 0 THEN l
                  ELSE plotdhgap(l.sink, v.c_shldith, v.c_blnkoth, v.blnkith,
                                 v.blnkoth, 0 - v.divgap, 0 - v.blnktth, v.triang,
                                 blanket, "mirror") : l \in {lo}})

\* plot_blanket(axis, mfile_data, plot_data, scan)
plot_blanket(m, pd) == Only({BlanketDraw(v) : v \in {BlanketReads(m, pd)}})

\* the attributes plot_firstwall reads from plot_data before it draws
FirstwallAttrs ==
    <<"cumulative_upper", "cumulative_lower", "triang", "fwoth", "fwith",
      "blnktth", "fwtth", "i_single_null">>

\* what plot_firstwall reads
FirstwallReads(m, pd) ==
    [triang    |-> pd.triang,
     fwoth     |-> pd.fwoth,
     fwith     |-> pd.fwith,
     blnktth   |-> pd.blnktth,
     tfwvt     |-> pd.fwtth,
     i_single_null |-> pd.i_single_null,
     c_fwoth   |-> Crb("fwoth", m, pd),
     c_blnkith |-> Crb("blnkith", m, pd),
     c_scraplo |-> Crb("scraplo", m, pd),
     c_fwith   |-> Crb("fwith", m, pd),
     cu_fwtth  |-> pd.cumulative_upper["fwtth"],
     divgap    |-> pd.cumulative_lower["divfix"]]

\* the body of plot_firstwall on the values v it has read
FirstwallDraw(v) ==
    LET \* upper first wall: outer surface
        radx1  == Half(v.c_fwoth + v.c_blnkith)
        rminx1 == Half(v.c_fwoth - v.c_blnkith)
        \* upper first wall: inner surface, drawn with the kapx of the outer one
        radx2  == Half(v.c_scraplo + v.c_fwith)
        rminx2 == Half(v.c_scraplo - v.c_fwith)
        kapx   == Ratio(Fx(v.cu_fwtth), rminx1)
        outerU == plotdh(radx1, rminx1, v.triang, kapx)
        innerU == plotdh(radx2, rminx2, v.triang, kapx)
        up == Stitch(outerU, innerU)
    IN  IF v.i_single_null = 1 /\ rminx1 = 0 THEN Raise(<< >>, "ZeroDivisionError")
        ELSE
        LET s1 == IF v.i_single_null = 1
                    THEN << PlotdhLine(outerU, "upper"), PlotdhLine(innerU, "upper"),
                            Shape("fill", firstwall, up.rs, up.zs, "upper") >>
                    ELSE << >>
            \* lower first wall
            lo == plotdhgap(s1, v.c_blnkith, v.c_fwoth, v.fwith, v.fwoth,
                            v.divgap + v.blnktth, 0 - v.tfwvt, v.triang, firstwall,
                            "lower")
        IN  Only({IF l.err # "none" \/ v.i_single_null # 0 THEN l
                  ELSE plotdhgap(l.sink, v.c_blnkith, v.c_fwoth, v.fwith, v.fwoth,
                                 0 - (v.divgap + v.blnktth), 0 - v.tfwvt, v.triang,
                                 firstwall, "mirror") : l \in {lo}})

\* plot_firstwall(axis, mfile_data, plot_data, scan): an attribute the
\* dataclass does not declare ends the call before anything is drawn
plot_firstwall(m, pd) ==
    IF \E k \in 1..Len(FirstwallAttrs) : ~HasAttr(FirstwallAttrs[k])
      THEN Raise(<< >>, "AttributeError")
    ELSE Only({FirstwallDraw(v) : v \in {FirstwallReads(m, pd)}})

---------------------------------------------------------------------------
(* The information panels *)

\* axis.text(x, y, s, ...): a line of text handed to the axis
Text(s) == [op |-> "text", s |-> s]

\* plot_info(axis, data, mfile_data, scan): for every row its label and its
\* value; a row is recorded by its label
plot_info(rows) ==
    [k \in 1..(2 * Len(rows)) |->
        IF k % 2 = 1 THEN Text(rows[(k + 1) \div 2]) ELSE Text("value")]

\* a list with x put in front of position i (list.insert(i - 1, x))
Insert(s, i, x) == SubSeq(s, 1, i - 1) \o << x >> \o SubSeq(s, i, Len(s))

\* the chain of tests with the unknown values taken for a neutral beam
DriveOfUnknownIsBeam(v) ==
    IF v \in {3, 7, 10, 11} THEN "ECRH"
    ELSE IF v = 12 THEN "EBW"
    ELSE IF v \in {1, 2, 4, 6, 9} THEN "NotImplementedError"
    ELSE "NBI"

\* what the chain of tests on a current-drive selector v selects: a drive
\* type, or the exception raised
DriveOf(v) ==
    IF v \in {5, 8} THEN "NBI"
    ELSE IF v \in {3, 7, 10, 11} THEN "ECRH"
    ELSE IF v = 12 THEN "EBW"
    ELSE IF v \in {1, 2, 4, 6, 9} THEN "NotImplementedError"
    ELSE "ValueError"

DriveErrors == {"NotImplementedError", "ValueError"}

\* the title of a drive type
DriveTitle(d) ==
    IF d = "NBI" THEN "Neutral Beam Current Drive:"
    ELSE IF d = "ECRH" THEN "Electron Cyclotron Current Drive:"
    ELSE "Electron Bernstein Wave Drive:"

\* the rows of plot_current_drive_info for a drive type d
DriveRows(d, m) ==
    LET base == << "Steady state auxiliary power", "Power for heating only",
                   "Bootstrap fraction", "Auxiliary fraction", "Inductive fraction" >>
        nbi == IF d = "NBI"
                 THEN << "NB gamma", "Plasma heating used for H factor" >>
               ELSE << >>
        rest == << "Plasma heating used for H factor", "Pdiv/R0", "Pdiv/<n>R0",
                   "Pdiv/PLH", "H* (non-rad. corr.)" >>
        data == base \o nbi \o rest
        fixed == IF Exists(m, "iefrffix")
                   THEN Insert(Insert([data EXCEPT ![1] = "Primary auxiliary power"],
                                      2, "secondary auxiliary power"),
                               3, "Total auxillary power")
                 ELSE data
    IN  fixed \o << "", "" >>
          \o << IF GetScan(m, "coe") = 0 THEN "Cost output not selected"
                ELSE "Cost of electricity" >>

\* plot_current_drive_info(axis, mfile_data, scan)
plot_current_drive_info(m) ==
    LET d == DriveOf(GetScan(m, "iefrf"))
        title == << Text(DriveTitle(d)) >>
    IN  IF d \in DriveErrors THEN Raise(<< >>, d)
        ELSE IF Exists(m, "iefrffix") /\ DriveOf(GetScan(m, "iefrffix")) \in DriveErrors
          THEN Raise(title, DriveOf(GetScan(m, "iefrffix")))
        ELSE Done(title \o plot_info(DriveRows(d, m)))

---------------------------------------------------------------------------
(* The TF coils of the poloidal cross-section *)

\* axis.add_patch(patches.Rectangle([x, y], width, height, facecolor=color))
Rectangle(x, y, width, height, color) ==
    [op |-> "add_patch", kind |-> "Rectangle", x |-> x, y |-> y,
     width |-> width, height |-> height, color |-> color]

\* ellips_fill(axis, a1, a2, b1, b2, x0, y0, ang1, ang2, color): one closed
\* path between two ellipse sectors, recorded by the arguments that fix it
ellips_fill(a1, a2, b1, b2, x0, y0, ang1, ang2, color) ==
    [op |-> "add_patch", kind |-> "PathPatch", a1 |-> a1, a2 |-> a2,
     b1 |-> b1, b2 |-> b2, x0 |-> x0, y0 |-> y0, ang1 |-> ang1, ang2 |-> ang2,
     color |-> color]

RTANGLE == HalfPi

\* the name xarc(i) or yarc(i)
ArcName(axis, i) ==
    IF axis = "x"
      THEN << "xarc(1)", "xarc(2)", "xarc(3)", "xarc(4)", "xarc(5)" >>[i]
    ELSE << "yarc(1)", "yarc(2)", "yarc(3)", "yarc(4)", "yarc(5)" >>[i]

\* the selector with its default: int(get_scan) if the name is there, else dflt
Selector(m, name, dflt) == IF Exists(m, name) THEN GetScan(m, name) ELSE dflt

\* what plot_tf_coils reads: both the x and the y of the five arc points are
\* read from the names xarc(1..5)
TfCoilReads(m, pd) ==
    [tfcth |-> pd.tfcth,
     x |-> [i \in 1..5 |-> GetScan(m, ArcName("x", i))],
     y |-> [i \in 1..5 |-> GetScan(m, ArcName("x", i))],
     i_tf_shape |-> Selector(m, "i_tf_shape", 1)]

\* the picture frame: four rectangles
PictureFrame(v) ==
    << Rectangle(v.x[5] - v.tfcth, v.y[5] - v.tfcth, v.tfcth,
                 v.y[1] - v.y[5] + 2 * v.tfcth, "cyan"),
       Rectangle(v.x[4], v.y[4] - v.tfcth, v.tfcth,
                 v.y[2] - v.y[4] + 2 * v.tfcth, "cyan"),
       Rectangle(v.x[5], v.y[5] - v.tfcth, v.x[4] - v.x[5], v.tfcth, "cyan"),
       Rectangle(v.x[1], v.y[1], v.x[2] - v.x[1], v.tfcth, "cyan") >>

\* the D shape: four elliptical sectors and the vertical leg
DShape(v) ==
    LET rt == RTANGLE
        rt2 == 2 * RTANGLE
        t == v.tfcth
    IN  << ellips_fill(v.x[2] - v.x[1], v.x[2] - v.x[1] + t,
                       v.y[2] - v.y[1], v.y[2] - v.y[1] + t,
                       v.x[2], v.y[1], rt, rt2, "cyan"),
           ellips_fill(v.x[3] - v.x[2], v.x[3] - v.x[2] + t,
                       v.y[2], v.y[2] + t, v.x[2], 0, 0, rt, "cyan"),
           ellips_fill(v.x[4] - v.x[5], v.x[4] - v.x[5] + t,
                       v.y[5] - v.y[4], v.y[5] - v.y[4] + t,
                       v.x[4], v.y[5], 0 - rt, 0 - rt2, "cyan"),
           ellips_fill(v.x[3] - v.x[2], v.x[3] - v.x[2] + t,
                       0 - v.y[4], t - v.y[4], v.x[4], 0, 0, 0 - rt, "cyan"),
           Rectangle(v.x[5] - t, v.y[5], t, v.y[1] - v.y[5], "cyan") >>

\* the diagnostic printed when the third y read is not zero
TfCoilLog(v) ==
    IF v.y[3] # 0 THEN << <<"print", "yarc(3) is not zero">> >> ELSE << >>

\* the choice of shape with the picture frame drawn for selector 1
TfCoilShapesFrameForOne(v) == IF v.i_tf_shape = 1 THEN PictureFrame(v) ELSE DShape(v)

\* the shapes of plot_tf_coils for a selector: the picture frame for 2, the
\* D shape for every other value
TfCoilShapes(v) == IF v.i_tf_shape = 2 THEN PictureFrame(v) ELSE DShape(v)

\* plot_tf_coils(axis, mfile_data, plot_data, scan)
plot_tf_coils(m, pd) ==
    Only({[sink |-> TfCoilShapes(v), err |-> "none", log |-> TfCoilLog(v)] :
            v \in {TfCoilReads(m, pd)}})

---------------------------------------------------------------------------
(* The magnet technology: process_tf and the toroidal cross-section *)

\* an Optional[float]: None, or a value
None == << >>

Some(v) == << v >>

mag_cond == <<"wwp1", "wwp2", "dr_tf_wp", "tinstf", "thkcas", "casthi">>

\* the magnet-technology flag read with a resistive default
TfSupCopperDefault(m) == Selector(m, "i_tf_sup", 0)

\* the magnet-technology flag as every consumer reads it: the resolver's
\* value if the name is there, else 1 (superconducting)
TfSup(m) == Selector(m, "i_tf_sup", 1)

\* the integer-turns flag: the resolver's value if the name is there, else 0
TfTurnsInteger(m) == Selector(m, "i_tf_turns_integer", 0)

\* the value process_tf leaves in data[k] for superconducting magnets: the
\* assignment made for wwp2 under the integer-turns flag is overwritten by the
\* unconditional one that follows it
MagValue(m, k) ==
    LET conditional == IF k = "wwp2"
                         THEN (IF TfTurnsInteger(m) = 0 THEN Some(GetScan(m, k))
                               ELSE None)
                       ELSE None
        unconditional == Some(GetScan(m, k))
    IN  unconditional

\* PlotData.process_tf(m_file, scan, data): the entries it sets in data
process_tf(m) ==
    [k \in Range(mag_cond) |-> IF TfSup(m) = 1 THEN MagValue(m, k) ELSE None]

\* the attributes toroidal_cross_section takes from plot_data in one go
ToroidalAttrs ==
    <<"rmajor", "rminor", "rdewex", "ddwex", "n_tf", "nbshield", "thkcas",
      "tinstf", "dr_tf_wp", "wwp1", "wwp2", "casthi", "tfthko", "beamwd",
      "rtanbeam", "beamwd">>

\* the radial segments toroidal_cross_section colours in
ToroidalData ==
    <<"ohcth", "precomp", "tfcth", "thshield_ib", "d_vv_in", "shldith",
      "blnkith", "fwith", "fwoth", "blnkoth", "shldoth", "d_vv_out",
      "thshield_ob">>

plasma == "khaki"

cryostat == "red"

winding == "blue"

\* arc(axis, r, style=style): a quarter circle of radius r
arc(r, style) == [op |-> "plot", kind |-> "arc", r |-> r, style |-> style]

\* arc_fill(axis, r1, r2, color): the closed path between two quarter circles
arc_fill(r1, r2, color) ==
    [op |-> "add_patch", kind |-> "arc_fill", r1 |-> r1, r2 |-> r2, color |-> color]

Tan(x) == Ratio(Sin(x), Cos(x))

Min(a, b) == IF a < b THEN a ELSE b

\* zip(xs, ys, rs): as many triples as the shortest of the three has entries
Zip3(xs, ys, rs) ==
    [k \in 1..Min(Len(xs), Min(Len(ys), Len(rs))) |-> <<xs[k], ys[k], rs[k]>>]

\* the signs TF_outboard zips with the radii: the first tuple is written
\* (1, 1, -1 - 1) and has three entries
XSigns == <<1, 1, 0 - 1 - 1>>

YSigns == <<0 - 1, 0 - 1, 1, 1>>

\* TF_outboard(axis, item, n_tf, r3, r4, w, facecolor): one closed path
TF_outboard(item, n_tf, r3, r4, w, facecolor) ==
    LET ang == FDiv(item * 2 * Pi, n_tf)
        dx == FMul(w, Sin(ang))
        dy == FMul(w, Cos(ang))
        z == Zip3(XSigns, YSigns, <<r3, r4, r4, r3>>)
    IN  [op |-> "add_patch", kind |-> "TF_outboard", facecolor |-> facecolor,
         verts |-> [k \in 1..Len(z) |->
                      << FMul(z[k][3], Cos(ang)) + z[k][1] * dx,
                         FMul(z[k][3], Sin(ang)) + z[k][2] * dy >>]]

\* what toroidal_cross_section reads
ToroidalReads(m, pd) ==
    [pd |-> pd,
     i_tf_sup |-> TfSup(m),
     i_tf_turns_integer |-> TfTurnsInteger(m),
     build |-> [k \in 1..Len(ToroidalData) |->
                  cumulative_radial_build(ToroidalData[k], m, pd, TRUE, FALSE).ret],
     r1 |-> cumulative_radial_build("gapoh", m, pd, FALSE, FALSE).ret[1],
     r2 |-> cumulative_radial_build("tfcth", m, pd, FALSE, FALSE).ret[1],
     r43 |-> cumulative_radial_build("tfthko", m, pd, TRUE, FALSE).ret,
     iefrf |-> GetScan(m, "iefrf")]

\* a face colour: a colour name, or a number handed over in its place
Colour(name) == [named |-> TRUE, name |-> name, value |-> 0]

Number(v) == [named |-> FALSE, name |-> "", value |-> v]

\* the pairs of lines at the angles angs between the radii r1 and r2
Spokes(r1, r2, angs) ==
    [op |-> "plot", kind |-> "spokes", color |-> "black",
     xs |-> [k \in 1..Len(angs) |-> <<FMul(r1, Cos(angs[k])), FMul(r2, Cos(angs[k]))>>],
     ys |-> [k \in 1..Len(angs) |-> <<FMul(r1, Sin(angs[k])), FMul(r2, Sin(angs[k]))>>]]

\* the neutral beam shielding and the TF coil segment of every item
TfSegments(n, n_tf, r3, r4, w, nbshield) ==
    [k \in 1..(2 * n) |->
        IF k % 2 = 1
          THEN TF_outboard((k - 1) \div 2, n_tf, r3, r4, w + Fx(nbshield),
                           Number(nbshield))
        ELSE TF_outboard((k - 1) \div 2, n_tf, r3, r4, w, Colour("cyan"))]

\* the winding pack of one leg, from x1 on: one rectangle with integer turns,
\* two otherwise, of the heights first and second
WindingPack(x1, dr_tf_wp, turns, wwp1, first, second) ==
    IF turns = 1
      THEN << Rectangle(x1, 0, Fx(dr_tf_wp), Half(wwp1), winding) >>
    ELSE << Rectangle(x1, 0, Half(dr_tf_wp), Half(first), winding),
            Rectangle(x1 + Half(dr_tf_wp), 0, Half(dr_tf_wp), Half(second), winding) >>

\* the two dotted lines of the neutral beam, recorded by the radii at the
\* tangency point and the corner of the TF coil they run to
BeamLines(pd, r4, w) ==
    << [op |-> "plot", kind |-> "beam", linestyle |-> "dotted",
        r |-> Fx(pd.rtanbeam - pd.beamwd), xcorner |-> r4,
        ycorner |-> w + Fx(pd.nbshield)],
       [op |-> "plot", kind |-> "beam", linestyle |-> "dotted",
        r |-> Fx(pd.rtanbeam + pd.beamwd), xcorner |-> r4,
        ycorner |-> w + Fx(pd.nbshield)] >>

\* the body of toroidal_cross_section on the values v it has read
ToroidalDraw(v) ==
    LET pd == v.pd
        s1 == << arc(Fx(pd.rmajor), "dashed") >>
                \o [k \in 1..Len(ToroidalData) |->
                      arc_fill(Fx(v.build[k][1]), Fx(v.build[k][2]), ToroidalData[k])]
                \o << arc_fill(Fx(pd.rmajor - pd.rminor), Fx(pd.rmajor + pd.rminor),
                               plasma),
                      arc_fill(Fx(pd.rdewex), Fx(pd.rdewex + pd.ddwex), cryostat) >>
    IN  IF pd.n_tf = 0 THEN Raise(s1, "ZeroDivisionError")
        ELSE
        LET n == (pd.n_tf \div 4) + 1
            spacing == FDiv(2 * Pi, pd.n_tf)
            ang == [k \in 1..n |-> (k - 1) * spacing]
            angl == [k \in 1..n |-> ang[k] - FDiv(spacing, 2)]
            angu == [k \in 1..n |-> ang[k] + FDiv(spacing, 2)]
            r1 == Fx(v.r1)
            r2 == Fx(v.r2)
            r4 == Fx(v.r43[1])
            r3 == Fx(v.r43[2])
            w == FMul(r2, Tan(FDiv(spacing, 2)))
            s2 == s1 \o << Spokes(r1, r2, angl), Spokes(r1, r2, angu),
                           Text("plasma"), Text("cryostat") >>
                     \o TfSegments(n, pd.n_tf, r3, r4, w, pd.nbshield)
            beam == IF v.iefrf \in {5, 8} THEN BeamLines(pd, r4, w) ELSE << >>
        IN  IF v.i_tf_sup # 1 THEN Done(s2 \o beam)
            ELSE IF \E k \in 1..Len(mag_cond) : pd[mag_cond[k]] = None
              THEN Raise(s2, "TypeError")
            ELSE
            LET thkcas == pd.thkcas[1]
                tinstf == pd.tinstf[1]
                casthi == pd.casthi[1]
                dr_tf_wp == pd.dr_tf_wp[1]
                wwp1 == pd.wwp1[1]
                wwp2 == pd.wwp2[1]
            IN  Done(s2
                  \o WindingPack(r1 + Fx(thkcas + tinstf), dr_tf_wp,
                                 v.i_tf_turns_integer, wwp1, wwp2, wwp1)
                  \o WindingPack(r3 + Fx(casthi + tinstf), dr_tf_wp,
                                 v.i_tf_turns_integer, wwp1, wwp1, wwp2)
                  \o beam)

\* toroidal_cross_section(axis, mfile_data, plot_data, colour_dict, scan,
\* demo_ranges)
toroidal_cross_section(m, pd) ==
    IF \E k \in 1..Len(ToroidalAttrs) : ~HasAttr(ToroidalAttrs[k])
      THEN Raise(<< >>, "AttributeError")
    ELSE Only({ToroidalDraw(v) : v \in {ToroidalReads(m, pd)}})

\* the names of the form rpf[i]
RpfNames == <<"rpf[0]", "rpf[1]", "rpf[2]", "rpf[3]", "rpf[4]", "rpf[5]">>

\* the number of names of the resolver that contain "rpf["
NumberOfCoils(m) == Cardinality(Range(RpfNames) \cap m.keys)

\* the PF rows of the magnet panel: one for every odd i below the number of
\* coils
PfInfo(m) ==
    LET odd == {i \in 1..(NumberOfCoils(m) - 1) : i % 2 = 1}
    IN  [k \in 1..Cardinality(odd) |-> "PF coil current"]

\* the rows that follow the coil type, for superconducting magnets
SuperconductingRows ==
    << "Peak field at conductor (w. rip.)", "TF Cond max TRESCA stress",
       "TF Case max TRESCA stress", "Allowable stress", "I/Icrit",
       "TF Temperature margin", "CS Temperature margin", "Mass per TF coil" >>

\* the rows that follow the coil type, for resistive magnets
ResistiveRows ==
    << "Peak field at conductor (w. rip.)", "TF coil currents sum", "",
       "", "TF Cond max TRESCA stress", "TF Case max TRESCA stress",
       "Allowable stress", "CP cooling fraction", "Maximum coolant flow speed",
       "CP Resisitive heating", "legs Resisitive heating (all legs)",
       "TF joints resisitive heating " >>

\* plot_magnetics_info(axis, mfile_data, scan)
plot_magnetics_info(m) ==
    LET title == << Text("Coil currents etc:") >>
        pf == PfInfo(m)
    IN  IF Len(pf) < 2 THEN Raise(title, "IndexError")
        ELSE Done(title \o plot_info(
               << pf[1], pf[2], IF Len(pf) > 2 THEN pf[3] ELSE "",
                  "Startup flux swing", "Available flux swing", "Burn time",
                  "", "" >>
               \o (IF TfSup(m) = 1 THEN SuperconductingRows ELSE ResistiveRows)))

---------------------------------------------------------------------------
(* PlotData.from_mfile *)

\* the build tables, left out of the loop over the fields like the magnet fields
rad_cond == <<"upper", "lower", "cumulative_upper", "cumulative_lower">>

\* cls.__dataclass_fields__: the declared fields and, with them, the names of
\* the two class variables
DataclassFields == PlotDataDeclared \cup {"mag_cond", "rad_cond"}

\* the names the loop of from_mfile runs over
FromMfileFields == DataclassFields \ (Range(mag_cond) \cup Range(rad_cond))

\* the keyword arguments from_mfile assembles: for every name of the loop the
\* resolver's value of "bore", the magnet fields as process_tf sets them when
\* the loop reaches n_tf, and the four build tables
FromMfileData(m) ==
    [var \in FromMfileFields |-> GetScan(m, "bore")]
      @@ process_tf(m)
      @@ [k \in Range(rad_cond) |-> create_radial_build(m)[k]]

\* cls(**data): a keyword that is no declared field is a TypeError
Construct(data) ==
    IF DOMAIN data \subseteq PlotDataDeclared
      THEN [ret |-> << data >>, err |-> "none", data |-> data]
    ELSE [ret |-> << >>, err |-> "TypeError", data |-> data]

\* PlotData.from_mfile(m_file, scan)
from_mfile(m) == Construct(FromMfileData(m))

---------------------------------------------------------------------------
(* The plasma boundary *)

\* the number of samples of np.linspace in plot_plasma
NPlasma == 256

\* the largest k with k * k <= n, for lo * lo <= n < hi * hi
RECURSIVE SqrtSearch(_, _, _)
SqrtSearch(n, lo, hi) ==
    IF hi - lo <= 1 THEN lo
    ELSE IF ((lo + hi) \div 2) * ((lo + hi) \div 2) <= n
         THEN SqrtSearch(n, (lo + hi) \div 2, hi)
         ELSE SqrtSearch(n, lo, (lo + hi) \div 2)

\* np.sqrt of a fixed-point number that is not negative
Sqrt(x) == SqrtSearch(x * Scale, 0, 46340)

\* the least angle of lo+1..hi whose sine reaches x, for Sin(lo) < x <= Sin(hi)
RECURSIVE ArcSinSearch(_, _, _)
ArcSinSearch(x, lo, hi) ==
    IF hi - lo <= 1 THEN hi
    ELSE IF Sin((lo + hi) \div 2) >= x
         THEN ArcSinSearch(x, lo, (lo + hi) \div 2)
         ELSE ArcSinSearch(x, (lo + hi) \div 2, hi)

\* np.arcsin of a ratio in [0, 1]; the ratios of plot_plasma are at most 1, and
\* one that the last digit carries above 1 is taken as 1
ArcSin(x) ==
    IF x <= 0 THEN 0 ELSE ArcSinSearch(Min(x, Scale), 0, HalfPi)

\* what plot_plasma reads from plot_data, with delta and kappa as it scales them
PlasmaReads(pd) ==
    [r0 |-> Fx(pd.rmajor), a |-> Fx(pd.rminor),
     delta |-> FMul(1500, pd.triang95),
     kappa |-> FMul(1100, pd.kappa95) + 40,
     i_single_null |-> pd.i_single_null]

\* the centre x and the radius r of the circle through the extrema, for
\* d = delta + 1 (inboard) and d = delta - 1 (outboard); d is not 0
PlasmaCentre(v, d) ==
    Ratio(FMul(2 * v.r0, d)
            - FMul(v.a, FMul(v.delta, v.delta) + FMul(v.kappa, v.kappa) - Scale),
          2 * d)

PlasmaRadius(v, d) ==
    FDiv(Sqrt(Ratio(FMul(FMul(v.a, v.a),
                         FMul(FMul(d, d) + FMul(v.kappa, v.kappa),
                              FMul(d, d) + FMul(v.kappa, v.kappa))),
                    FMul(d, d))),
         2)

\* x1, x2, r1, r2 given, the angles theta1, theta2, inang and outang
PlasmaAngles(v, x1, x2, r1, r2) ==
    [x1 |-> x1, x2 |-> x2, r1 |-> r1, r2 |-> r2,
     theta1 |-> ArcSin(Ratio(FMul(v.kappa, v.a), r1)),
     theta2 |-> ArcSin(Ratio(FMul(v.kappa, v.a), r2)),
     inang |-> Ratio(Scale, r1),
     outang |-> Ratio(1500, r2)]

PlasmaGeometry(v) ==
    PlasmaAngles(v, PlasmaCentre(v, v.delta + Scale), PlasmaCentre(v, v.delta - Scale),
                 PlasmaRadius(v, v.delta + Scale), PlasmaRadius(v, v.delta - Scale))

\* the spans with the branch of a flag above 0 taken for every flag but 0
PlasmaSpansOneSided(g, i_single_null) ==
    IF i_single_null = 0
    THEN [angs1 |-> << Pi - (g.inang + g.theta1), (g.inang + g.theta1) + Pi >>,
          angs2 |-> << 0 - (g.outang + g.theta2), g.outang + g.theta2 >>]
    ELSE [angs1 |-> << Pi - g.theta1, (g.inang + g.theta1) + Pi >>,
          angs2 |-> << 0 - (g.outang + g.theta2), g.theta2 >>]

\* the first and last angle of angs1 (the arc about pi) and of angs2 (the arc
\* about 0)
PlasmaSpans(g, i_single_null) ==
    IF i_single_null = 0
    THEN [angs1 |-> << Pi - (g.inang + g.theta1), (g.inang + g.theta1) + Pi >>,
          angs2 |-> << 0 - (g.outang + g.theta2), g.outang + g.theta2 >>]
    ELSE IF i_single_null < 0
    THEN [angs1 |-> << Pi - (g.inang + g.theta1), g.theta1 + Pi >>,
          angs2 |-> << 0 - g.theta2, g.outang + g.theta2 >>]
    ELSE [angs1 |-> << Pi - g.theta1, (g.inang + g.theta1) + Pi >>,
          angs2 |-> << 0 - (g.outang + g.theta2), g.theta2 >>]

\* -(r * cos(angs) - x) and r * sin(angs)
PlasmaArcX(r, x, angs) == [k \in 1..Len(angs) |-> 0 - (FMul(r, Cos(angs[k])) - x)]

PlasmaArcY(r, angs) == [k \in 1..Len(angs) |-> FMul(r, Sin(angs[k]))]

\* axis.fill_betweenx(y, x1, x2, where=..., color=...)
FillBetweenx(y, x1, x2, where, color) ==
    [op |-> "fill_betweenx", y |-> y, x1 |-> x1, x2 |-> x2, where |-> where,
     color |-> color]

\* the two boundary lines and the two fills between them
PlasmaShapes(v, xs1, ys1, xs2, ys2) ==
    << Shape("plot", "black", xs1, ys1, "both"),
       Shape("plot", "black", xs2, ys2, "both"),
       FillBetweenx(ys1, xs1, xs2,
                    [k \in 1..Len(ys1) |->
                        /\ xs2[k] < xs1[k]
                        /\ ys1[k] > 0 - FMul(v.a, v.kappa)
                        /\ ys1[k] < FMul(v.a, v.kappa)],
                    plasma),
       FillBetweenx(ys1, xs1, xs2, [k \in 1..Len(ys1) |-> xs2[k] > xs1[k]], "none") >>

PlasmaCurves(v, g, angs1, angs2) ==
    PlasmaShapes(v, PlasmaArcX(g.r1, g.x1, angs1), PlasmaArcY(g.r1, angs1),
                 PlasmaArcX(g.r2, g.x2, angs2), PlasmaArcY(g.r2, angs2))

PlasmaDraw(v, g, s) ==
    PlasmaCurves(v, g, Linspace(s.angs1[1], s.angs1[2], NPlasma),
                 Linspace(s.angs2[1], s.angs2[2], NPlasma))

\* plot_plasma(axis, plot_data): the shapes added to those already on the axis;
\* the minor radius is positive
plot_plasma(shapes, pd) ==
    Only({IF v.delta + Scale = 0 \/ v.delta - Scale = 0
          THEN Raise(shapes, "ZeroDivisionError")
          ELSE Only({Done(shapes \o PlasmaDraw(v, g, PlasmaSpans(g, v.i_single_null))) :
                     g \in {PlasmaGeometry(v)}}) :
          v \in {PlasmaReads(pd)}})

---------------------------------------------------------------------------
(* The poloidal cross-section *)

\* plot_centre_cross(axis, rmajor): one line through the five points of a cross
plot_centre_cross(rmajor) ==
    Done(<< Shape("plot", "black",
                  << Fx(rmajor) - FDiv(Scale, 4), Fx(rmajor) + FDiv(Scale, 4),
                     Fx(rmajor), Fx(rmajor), Fx(rmajor) >>,
                  << 0, 0, 0, FDiv(Scale, 4), 0 - FDiv(Scale, 4) >>, "both") >>)

\* the wall and the lid of the cryostat on the side i of the midplane
CryostatSide(rdewex, ddwex, zdewex, i) ==
    << Rectangle(Fx(rdewex), 0, Fx(ddwex), i * Fx(zdewex + ddwex), cryostat),
       Rectangle(0, i * Fx(zdewex), Fx(rdewex), i * Fx(ddwex), cryostat) >>

\* plot_cryostat(axis, mfile_data, plot_data, scan): for i in (1, -1)
plot_cryostat(pd) ==
    Done(CryostatSide(pd.rdewex, pd.ddwex, pd.zdewex, 1)
           \o CryostatSide(pd.rdewex, pd.ddwex, pd.zdewex, 0 - 1))

\* the names of coil number coil, counted from 0
PfName(stem, coil) ==
    IF stem = "rpf" THEN RpfNames[coil + 1]
    ELSE IF stem = "zpf"
      THEN << "zpf[0]", "zpf[1]", "zpf[2]", "zpf[3]", "zpf[4]", "zpf[5]" >>[coil + 1]
    ELSE IF stem = "pfdr"
      THEN << "pfdr[0]", "pfdr[1]", "pfdr[2]", "pfdr[3]", "pfdr[4]", "pfdr[5]" >>[coil + 1]
    ELSE << "pfdz[0]", "pfdz[1]", "pfdz[2]", "pfdz[3]", "pfdz[4]", "pfdz[5]" >>[coil + 1]

\* axis.text(x, y, s, fontsize=...)
AxisText(x, y, s, fontsize) ==
    [op |-> "text", x |-> x, y |-> y, s |-> s, fontsize |-> fontsize]

\* one pass of the loop of plot_pf_coils: the outline, whose z_points are made
\* from r and dr like its r_points, the solenoid patch and the coil number
PfCoilShapes(r, z, dr, dz, bore, ohcth, ohdz, coil) ==
    << Shape("plot", "black",
             << Fx(r) - Half(dr), Fx(r) - Half(dr), Fx(r) + Half(dr),
                Fx(r) + Half(dr), Fx(r) - Half(dr) >>,
             << Fx(r) - Half(dr), Fx(r) + Half(dr), Fx(r) + Half(dr),
                Fx(r) - Half(dr), Fx(r) - Half(dr) >>, "both"),
       Rectangle(Fx(bore), 0 - Half(ohdz), Fx(ohcth), Fx(ohdz), "pink"),
       AxisText(Fx(r), Fx(z), coil + 1, 5 * Abs(dr * dz)) >>

\* the passes coil, coil + 1, ... below n
RECURSIVE PfCoilLoop(_, _, _)
PfCoilLoop(m, coil, n) ==
    IF coil >= n THEN << >>
    ELSE PfCoilShapes(GetScan(m, PfName("rpf", coil)), GetScan(m, PfName("zpf", coil)),
                      GetScan(m, PfName("pfdr", coil)), GetScan(m, PfName("pfdz", coil)),
                      GetScan(m, "bore"), GetScan(m, "ohcth"), GetScan(m, "ohdz"), coil)
           \o PfCoilLoop(m, coil + 1, n)

\* plot_pf_coils(axis, mfile_data, scan): one pass for every coil counted, and
\* one more when iohcl is 0
plot_pf_coils(m) ==
    Done(PfCoilLoop(m, 0, IF Selector(m, "iohcl", 1) = 0
                            THEN NumberOfCoils(m) + 1 ELSE NumberOfCoils(m)))

\* axis.set_xlabel, set_ylabel, set_title, set_xlim and set_ylim
AxisSet(what, value) == [op |-> what, value |-> value]

\* the components in the order poloidal_cross_section calls their functions
Components ==
    << "plot_vacuum_vessel", "plot_shield", "plot_blanket", "plot_firstwall",
       "plot_plasma", "plot_centre_cross", "plot_cryostat", "plot_tf_coils",
       "plot_pf_coils" >>

\* the call of component i, on a fresh axis but for plot_plasma
ComponentCall(i, m, pd) ==
    CASE i = 1 -> plot_vacuum_vessel(m, pd)
      [] i = 2 -> plot_shield(m, pd)
      [] i = 3 -> plot_blanket(m, pd)
      [] i = 4 -> plot_firstwall(m, pd)
      [] i = 5 -> plot_plasma(<< >>, pd)
      [] i = 6 -> plot_centre_cross(pd.rmajor)
      [] i = 7 -> plot_cryostat(pd)
      [] i = 8 -> plot_tf_coils(m, pd)
      [] i = 9 -> plot_pf_coils(m)

\* the axis limits set last: fixed for DEMO, else the left limit set to 0 and
\* the right limit left as the axis has it
PoloidalRanges(demo_ranges) ==
    IF demo_ranges
      THEN << AxisSet("set_ylim", << 0 - 15, 15 >>), AxisSet("set_xlim", << 0, 20 >>) >>
    ELSE << AxisSet("set_xlim", << 0 >>) >>

\* the calls from component i on; an exception of one ends the whole call with
\* what is on the axis by then.  drawn (history) lists the components that
\* handed a shape to the axis
RECURSIVE PoloidalFrom(_, _, _, _, _, _)
PoloidalFrom(i, shapes, drawn, m, pd, demo_ranges) ==
    IF i > Len(Components)
      THEN [sink |-> shapes \o PoloidalRanges(demo_ranges), err |-> "none",
            drawn |-> drawn]
    ELSE Only({IF r.err # "none"
                 THEN [sink |-> shapes \o r.sink, err |-> r.err,
                       drawn |-> IF r.sink = << >> THEN drawn
                                 ELSE Append(drawn, Components[i])]
               ELSE PoloidalFrom(i + 1, shapes \o r.sink,
                                 IF r.sink = << >> THEN drawn
                                 ELSE Append(drawn, Components[i]),
                                 m, pd, demo_ranges) :
               r \in {ComponentCall(i, m, pd)}})

\* poloidal_cross_section(axis, mfile_data, plot_data, scan, demo_ranges)
poloidal_cross_section(m, pd, demo_ranges) ==
    PoloidalFrom(1, << AxisSet("set_xlabel", "R / m"), AxisSet("set_ylabel", "Z / m"),
                       AxisSet("set_title", "Poloidal cross-section") >>,
                 << >>, m, pd, demo_ranges)

---------------------------------------------------------------------------
(* The line colours of the tracking plots (tracking/tracking_data.py) *)

\* bokeh.palettes.Category10[10]
Category10 ==
    << "#1f77b4", "#ff7f0e", "#2ca02c", "#d62728", "#9467bd",
       "#8c564b", "#e377c2", "#7f7f7f", "#bcbd22", "#17becf" >>

\* colour_map = {}
EmptyDict == [t \in {} |-> ""]

\* next(colours) of itertools.cycle: the colour at the place, and the place after
CycleValue(place) == Category10[place]

CycleAdvance(place) == (place % Len(Category10)) + 1

\* get_line_colour without the cache: every call takes the next colour
get_line_colour_uncached(cm, place, title) ==
    [ret |-> CycleValue(place),
     colour_map |-> (title :> CycleValue(place)) @@ cm,
     colours |-> CycleAdvance(place)]

\* get_line_colour(title) on the module state (cm, place): the colour returned
\* and the module state left
get_line_colour(cm, place, title) ==
    IF title \in DOMAIN cm
      THEN [ret |-> cm[title], colour_map |-> cm, colours |-> place]
    ELSE [ret |-> CycleValue(place),
          colour_map |-> (title :> CycleValue(place)) @@ cm,
          colours |-> CycleAdvance(place)]

---------------------------------------------------------------------------
(* The inputs: resolvers and PlotData instances *)

\* the scalar fields of PlotData that the modelled functions read
PdFields == {"rminor", "vvblgap", "d_vv_in", "d_vv_out", "blnkoth", "blnkith",
             "fwoth", "fwith", "fwtth", "triang", "i_single_null"}

\* names whose value is dimensionless and kept in 1/Scale units
Shapes == {"triang", "triang95"}

EvenNames(s) == {s[i] : i \in {j \in 1..Len(s) : j % 2 = 0}}

Staggered == EvenNames(RADIAL_BUILD) \cup EvenNames(vertical_upper)
                 \cup EvenNames(vertical_lower)

Patterns == {"flat", "stagger"}

\* the value of name k in the base input: every thickness 1 ("flat") or
\* thicknesses 1 and 2 in turn ("stagger"); the null flag is f
BaseVal(pat, f, k) ==
    IF k = "i_single_null" THEN f
    ELSE IF k \in Shapes THEN (IF pat = "flat" THEN 0 ELSE Scale \div 2)
    ELSE IF pat = "stagger" /\ k \in Staggered THEN 2
    ELSE IF pat = "zero" THEN 0
    ELSE 1

\* a perturbed value v of name k, in the units of k
InUnits(k, v) == IF k \in Shapes THEN v * (Scale \div 2) ELSE v

\* one change to the base input: nothing, a resolver value set, a resolver
\* name removed, or a PlotData field set
Changes ==
    {[what |-> "none", name |-> "", v |-> 0]}
      \cup [what : {"set"}, name : Keys, v : Vals]
      \cup [what : {"drop"}, name : Keys \ AliasNames, v : {0}]
      \cup [what : {"field"}, name : PdFields, v : Vals]

MFile(pat, f, c) ==
    [keys |-> IF c.what = "drop" THEN (Keys \ AliasNames) \ {c.name}
              ELSE IF c.what = "set" THEN (Keys \ AliasNames) \cup {c.name}
              ELSE Keys \ AliasNames,
     vals |-> [k \in Keys |-> IF c.what = "set" /\ c.name = k
                                THEN InUnits(k, c.v) ELSE BaseVal(pat, f, k)]]

\* PlotData(**data): the scalar fields as given, the four tables as
\* create_radial_build makes them from the resolver
PlotData(pat, f, c, m) ==
    LET t == create_radial_build(m)
    IN  [k \in PdFields |-> IF c.what = "field" /\ c.name = k
                              THEN InUnits(k, c.v) ELSE BaseVal(pat, f, k)]
          @@ [upper |-> t.upper, lower |-> t.lower,
              cumulative_upper |-> t.cumulative_upper,
              cumulative_lower |-> t.cumulative_lower]

\* the largest selector value tried; the recognised ones are 1..12
MaxIefrf == 13

\* the choice of leaving a name out of the resolver
NoEntry == 0 - 1

\* the unchanged resolver and the PlotData instance read from it
BaseMFile == MFile("flat", 0, [what |-> "none", name |-> "", v |-> 0])

BasePlotData == PlotData("flat", 0, [what |-> "none", name |-> "", v |-> 0], BaseMFile)

\* a resolver with more names: the values of sel, of which those in absent
\* are left out
WithEntries(m, sel, absent) ==
    [keys |-> m.keys \cup (DOMAIN sel \ absent), vals |-> sel @@ m.vals]

\* the resolver of a run with current-drive selector iefrf, secondary
\* selector iefrffix (or none) and cost of electricity coe
DriveMFile(iefrf, iefrffix, coe) ==
    WithEntries(BaseMFile,
                [iefrf |-> iefrf, iefrffix |-> iefrffix, coe |-> coe],
                IF iefrffix = NoEntry THEN {"iefrffix"} ELSE {})

\* the largest coil-shape selector tried; 1 is the D shape, 2 the picture frame
MaxShape == 3

\* the largest magnet-technology flag tried; 1 is superconducting
MaxSup == 2

\* the arc points of a TF coil: yarc(3) is 0 in "level" and 1 in "tilted"
ArcPatterns == {"level", "tilted"}

ArcPoint(pat, name) ==
    [k \in {"xarc(1)", "xarc(2)", "xarc(3)", "xarc(4)", "xarc(5)",
            "yarc(1)", "yarc(2)", "yarc(3)", "yarc(4)", "yarc(5)"} |->
        IF k = "xarc(1)" \/ k = "xarc(5)" THEN 4
        ELSE IF k = "xarc(2)" \/ k = "xarc(4)" THEN 6
        ELSE IF k = "xarc(3)" THEN 10
        ELSE IF k = "yarc(1)" THEN 3
        ELSE IF k = "yarc(2)" THEN 5
        ELSE IF k = "yarc(3)" THEN (IF pat = "level" THEN 0 ELSE 1)
        ELSE IF k = "yarc(4)" THEN 0 - 5
        ELSE 0 - 3][name]

\* the names a run with magnets adds to the resolver, with their values
CoilEntries(shape, sup, turns, pat, iefrf) ==
    [k \in {"i_tf_shape", "i_tf_sup", "i_tf_turns_integer", "iefrf"}
             \cup Range(mag_cond) \cup Range(RpfNames)
             \cup {PfName(stem, coil) : stem \in {"zpf", "pfdr", "pfdz"}, coil \in 0..3}
             \cup {"ohdz"}
             \cup {ArcName(a, i) : a \in {"x", "y"}, i \in 1..5} |->
        IF k = "i_tf_shape" THEN shape
        ELSE IF k = "i_tf_sup" THEN sup
        ELSE IF k = "i_tf_turns_integer" THEN turns
        ELSE IF k = "iefrf" THEN iefrf
        ELSE IF k \in {"wwp1", "dr_tf_wp"} THEN 2
        ELSE IF k \in Range(mag_cond) THEN 1
        ELSE IF k \in Range(RpfNames) THEN 6
        ELSE IF k \in {PfName("zpf", coil) : coil \in 0..3} THEN 8
        ELSE IF k \in {PfName(stem, coil) : stem \in {"pfdr", "pfdz"}, coil \in 0..3} THEN 1
        ELSE IF k = "ohdz" THEN 10
        ELSE ArcPoint(pat, k)]

\* the resolver of a run with 4 PF coils and the given selectors; a selector
\* of NoEntry is left out
CoilMFile(shape, sup, turns, pat, iefrf) ==
    WithEntries(BaseMFile, CoilEntries(shape, sup, turns, pat, iefrf),
                {"rpf[4]", "rpf[5]"}
                  \cup (IF shape = NoEntry THEN {"i_tf_shape"} ELSE {})
                  \cup (IF sup = NoEntry THEN {"i_tf_sup"} ELSE {})
                  \cup (IF turns = NoEntry THEN {"i_tf_turns_integer"} ELSE {}))

\* the PlotData instance of a run with magnets: the magnet fields as
\* process_tf leaves them for the same resolver
CoilPlotData(m, n_tf) ==
    process_tf(m)
      @@ [tfcth |-> 1, rmajor |-> 9, rdewex |-> 17, ddwex |-> 1, zdewex |-> 15,
          n_tf |-> n_tf, nbshield |-> 1, tfthko |-> 1, beamwd |-> 1,
          rtanbeam |-> 9, triang95 |-> 200, kappa95 |-> 1600]
      @@ BasePlotData

Sections == Range(RADIAL_BUILD) \cup {NoSuchSection}

---------------------------------------------------------------------------
(* The state machine *)

\* no call made yet, on the inputs made from a pattern, a null-topology
\* flag in fs and one change in cs
Start(fs, cs) ==
    /\ \E pat \in Patterns, f \in fs, c \in cs :
          /\ mfile = MFile(pat, f, c)
          /\ plot_data = PlotData(pat, f, c, mfile)
    /\ last = "idle"
    /\ args = << >>
    /\ ret = << >>
    /\ log = << >>
    /\ err = "none"
    /\ sink = << >>
    /\ trace = << >>
    /\ colour_map = EmptyDict
    /\ colours = 1

\* cumulative_radial_build(section, mfile_data, plot_data, scan, with_previous=.., verbose=..)
CumulativeRadialBuild ==
    \E section \in Sections, with_previous \in BOOLEAN, verbose \in BOOLEAN :
        LET r == cumulative_radial_build(section, mfile, plot_data, with_previous, verbose)
        IN  /\ last = "idle"
            /\ last' = "cumulative_radial_build"
            /\ args' = <<section, with_previous, verbose>>
            /\ ret' = r.ret
            /\ log' = r.log
            /\ err' = "none"
            /\ sink' = << >>
            /\ trace' = r.trace
            /\ UNCHANGED <<mfile, plot_data, colour_map, colours>>

\* PlotData.create_radial_build(m_file, scan)
CreateRadialBuild ==
    LET t == create_radial_build(mfile)
    IN  /\ last = "idle"
        /\ last' = "create_radial_build"
        /\ args' = << >>
        /\ ret' = <<t.upper, t.lower, t.cumulative_upper, t.cumulative_lower>>
        /\ log' = t.log
        /\ err' = "none"
        /\ sink' = << >>
        /\ trace' = << >>
        /\ UNCHANGED <<mfile, plot_data, colour_map, colours>>

\* a component renderer called on a fresh axis: the shapes it draws and the
\* exception it raises, if any
Render(name, r) ==
    /\ last = "idle"
    /\ last' = name
    /\ args' = << >>
    /\ ret' = << >>
    /\ log' = << >>
    /\ err' = r.err
    /\ sink' = r.sink
    /\ trace' = << >>
    /\ UNCHANGED <<mfile, plot_data, colour_map, colours>>

PlotVacuumVessel == Render("plot_vacuum_vessel", plot_vacuum_vessel(mfile, plot_data))

PlotShield == Render("plot_shield", plot_shield(mfile, plot_data))

PlotBlanket == Render("plot_blanket", plot_blanket(mfile, plot_data))

PlotFirstwall == Render("plot_firstwall", plot_firstwall(mfile, plot_data))

\* the caller has taken the outcome of the call; the next call starts afresh
Return ==
    /\ last # "idle"
    /\ last' = "idle"
    /\ args' = << >>
    /\ ret' = << >>
    /\ log' = << >>
    /\ err' = "none"
    /\ sink' = << >>
    /\ trace' = << >>
    /\ UNCHANGED <<mfile, plot_data, colour_map, colours>>

\* the triangularities handed to a curve constructor: -1, -1/2, 0, 1/2, 1
Deltas == {d * (Scale \div 2) : d \in (0 - 2)..2}

\* the elongations handed to plotdh, in halves
Kaps == {k * (Scale \div 2) : k \in (0 - MaxVal)..(MaxVal + 2)}

\* plotdh(axis, r0, a, delta, kap) called on a fresh axis
Plotdh ==
    \E r0 \in 2..(MaxVal + 2), a \in 0..MaxVal, delta \in Deltas, kap \in Kaps :
        LET c == plotdh(Fx(r0), Fx(a), delta, kap)
        IN  /\ last = "idle"
            /\ last' = "plotdh"
            /\ args' = <<Fx(r0), Fx(a), delta, kap>>
            /\ ret' = <<c.rs, c.zs>>
            /\ log' = << >>
            /\ err' = "none"
            /\ sink' = << PlotdhLine(c, "none") >>
            /\ trace' = << >>
            /\ UNCHANGED <<mfile, plot_data, colour_map, colours>>

\* plotdhgap(axis, inpt, outpt, inthk, outthk, toppt, topthk, delta, col)
\* called on a fresh axis
Plotdhgap ==
    \E inpt \in 1..MaxVal, inthk \in 0..1, outthk \in 0..1,
       toppt \in {0 - MaxVal, MaxVal}, topthk \in {MinVal, 0, 1}, delta \in Deltas :
      \E outpt \in inpt..(MaxVal + 2) :
        LET r == plotdhgap(<< >>, inpt, outpt, inthk, outthk, toppt, topthk, delta,
                           blanket, "none")
        IN  /\ last = "idle"
            /\ last' = "plotdhgap"
            /\ args' = <<inpt, outpt, inthk, outthk, toppt, topthk, delta>>
            /\ ret' = << >>
            /\ log' = << >>
            /\ err' = r.err
            /\ sink' = r.sink
            /\ trace' = << >>
            /\ UNCHANGED <<mfile, plot_data, colour_map, colours>>

\* plot_current_drive_info(axis, mfile_data, scan) called on a fresh axis
PlotCurrentDriveInfo ==
    Render("plot_current_drive_info", plot_current_drive_info(mfile))

\* a call on a fresh axis that also prints: the shapes, the exception and the
\* lines printed
RenderLog(name, r) ==
    /\ last = "idle"
    /\ last' = name
    /\ args' = << >>
    /\ ret' = << >>
    /\ log' = r.log
    /\ err' = r.err
    /\ sink' = r.sink
    /\ trace' = << >>
    /\ UNCHANGED <<mfile, plot_data, colour_map, colours>>

PlotTfCoils == RenderLog("plot_tf_coils", plot_tf_coils(mfile, plot_data))

\* PlotData.process_tf(m_file, scan, data) on an empty data
ProcessTf ==
    /\ last = "idle"
    /\ last' = "process_tf"
    /\ args' = << >>
    /\ ret' = << process_tf(mfile) >>
    /\ log' = << >>
    /\ err' = "none"
    /\ sink' = << >>
    /\ trace' = << >>
    /\ UNCHANGED <<mfile, plot_data, colour_map, colours>>

ToroidalCrossSection ==
    Render("toroidal_cross_section", toroidal_cross_section(mfile, plot_data))

PlotMagneticsInfo == Render("plot_magnetics_info", plot_magnetics_info(mfile))

PlotCentreCross == Render("plot_centre_cross", plot_centre_cross(plot_data.rmajor))

PlotCryostat == Render("plot_cryostat", plot_cryostat(plot_data))

PlotPfCoils == Render("plot_pf_coils", plot_pf_coils(mfile))

\* one call of poloidal_cross_section on a fresh axis, with either choice of
\* the axis ranges
PoloidalCrossSection ==
    /\ last = "idle"
    /\ \E demo_ranges \in BOOLEAN :
          \E r \in {poloidal_cross_section(mfile, plot_data, demo_ranges)} :
              /\ last' = "poloidal_cross_section"
              /\ args' = << demo_ranges >>
              /\ ret' = << >>
              /\ log' = << >>
              /\ err' = r.err
              /\ sink' = r.sink
              /\ trace' = r.drawn
    /\ UNCHANGED <<mfile, plot_data, colour_map, colours>>

\* PlotData.from_mfile(m_file, scan); the history holds the keyword arguments
\* it assembled
FromMfile ==
    /\ last = "idle"
    /\ \E r \in {from_mfile(mfile)} :
          /\ last' = "from_mfile"
          /\ args' = << >>
          /\ ret' = r.ret
          /\ log' = << >>
          /\ err' = r.err
          /\ sink' = << >>
          /\ trace' = << r.data >>
    /\ UNCHANGED <<mfile, plot_data, colour_map, colours>>

(* The build accumulation: every change of the inputs, the flag left at 0 *)

Init == Start({0}, Changes)

Next ==
    \/ CumulativeRadialBuild
    \/ CreateRadialBuild
    \/ Return

Spec == Init /\ [][Next]_vars

(* The component renderers: every flag, and the changes to the names the *)
(* renderers' heights and thicknesses come from                          *)

RenderNames ==
    {"i_single_null", "triang95", "triang", "blnktth", "fwtth", "divfix",
     "d_vv_top", "d_vv_bot", "d_vv_in", "shldoth", "blnkith", "blnkoth"}

RenderChanges == {c \in Changes : c.what = "none" \/ c.name \in RenderNames}

InitRender == Start(Vals, RenderChanges)

NextRender ==
    \/ PlotVacuumVessel
    \/ PlotShield
    \/ PlotBlanket
    \/ PlotFirstwall
    \/ Return

SpecRender == InitRender /\ [][NextRender]_vars

(* The current-drive panel: every selector and every secondary selector *)

\* no call is in progress and nothing has been drawn
Idle ==
    /\ last = "idle"
    /\ args = << >>
    /\ ret = << >>
    /\ log = << >>
    /\ err = "none"
    /\ sink = << >>
    /\ trace = << >>
    /\ colour_map = EmptyDict
    /\ colours = 1

InitDrive ==
    /\ \E iefrf \in 0..MaxIefrf, iefrffix \in NoEntry..MaxIefrf, coe \in 0..1 :
          mfile = DriveMFile(iefrf, iefrffix, coe)
    /\ plot_data = BasePlotData
    /\ Idle

NextDrive ==
    \/ PlotCurrentDriveInfo
    \/ Return

SpecDrive == InitDrive /\ [][NextDrive]_vars

(* The magnets: every coil-shape selector and magnet-technology flag *)

InitCoils ==
    /\ \E shape \in NoEntry..MaxShape, sup \in NoEntry..MaxSup, turns \in NoEntry..1,
          pat \in ArcPatterns, iefrf \in {5, 10}, n_tf \in {4, 8} :
          /\ mfile = CoilMFile(shape, sup, turns, pat, iefrf)
          /\ plot_data = CoilPlotData(mfile, n_tf)
    /\ Idle

NextCoils ==
    \/ FromMfile
    \/ PoloidalCrossSection
    \/ PlotCentreCross
    \/ PlotCryostat
    \/ PlotPfCoils
    \/ PlotTfCoils
    \/ ProcessTf
    \/ ToroidalCrossSection
    \/ PlotMagneticsInfo
    \/ Return

SpecCoils == InitCoils /\ [][NextCoils]_vars

(* The plasma boundary for every null-topology flag *)

\* the largest null-topology flag tried; the flags run from -MaxNull to MaxNull
MaxNull == 2

\* the triangularities and elongations at the 95% surface tried, in 1/Scale
Triang95s == {0 - 200, 0, 200, 400}

Kappa95s == {Scale, 1600, 1800}

\* a PlotData instance with the plasma shape fields set
PlasmaPlotData(rminor, triang95, kappa95, f) ==
    [rmajor |-> 3, rminor |-> rminor, triang95 |-> triang95,
     kappa95 |-> kappa95, i_single_null |-> f] @@ BasePlotData

PlotPlasma == Render("plot_plasma", plot_plasma(<< >>, plot_data))

InitPlasma ==
    /\ \E rminor \in 1..2, triang95 \in Triang95s, kappa95 \in Kappa95s,
          f \in (0 - MaxNull)..MaxNull :
          /\ mfile = BaseMFile
          /\ plot_data = PlasmaPlotData(rminor, triang95, kappa95, f)
    /\ Idle

NextPlasma ==
    \/ PlotPlasma
    \/ Return

SpecPlasma == InitPlasma /\ [][NextPlasma]_vars

(* The line colours: every sequence of run titles *)

\* the largest number of get_line_colour calls in one run
MaxCalls == 6

\* the run titles requested
Titles == {"baseline", "large tokamak", "stellarator", "st_regression"}

\* one call of get_line_colour, after any number of earlier ones
GetLineColour ==
    /\ Len(trace) < MaxCalls
    /\ \E title \in Titles :
          \E r \in {get_line_colour(colour_map, colours, title)} :
              /\ last' = "get_line_colour"
              /\ args' = << title >>
              /\ ret' = << r.ret >>
              /\ colour_map' = r.colour_map
              /\ colours' = r.colours
              /\ trace' = Append(trace, << title, r.ret >>)
    /\ UNCHANGED <<mfile, plot_data, log, err, sink>>

InitColour ==
    /\ mfile = BaseMFile
    /\ plot_data = BasePlotData
    /\ Idle

NextColour == GetLineColour

SpecColour == InitColour /\ [][NextColour]_vars

(* The PF coils: every number of coils, with and without central solenoid *)

\* the largest number of rpf[...] entries tried
MaxCoils == 4

\* the names of coil number coil
PfNames(coil) == {PfName(stem, coil) : stem \in {"rpf", "zpf", "pfdr", "pfdz"}}

\* the resolver of a run with n coils at height z, of widths dr and heights
\* dz, coil number i at radius 6 + i; an iohcl of NoEntry is left out
PfMFile(n, iohcl, z, dr, dz) ==
    WithEntries(BaseMFile,
                [k \in UNION {PfNames(coil) : coil \in 0..5} \cup {"ohdz", "iohcl"} |->
                    IF k = "iohcl" THEN iohcl
                    ELSE IF k = "ohdz" THEN 10
                    ELSE IF k \in {PfName("zpf", coil) : coil \in 0..5} THEN z
                    ELSE IF k \in {PfName("pfdr", coil) : coil \in 0..5} THEN dr
                    ELSE IF k \in {PfName("pfdz", coil) : coil \in 0..5} THEN dz
                    ELSE 6 + Only({coil \in 0..5 : PfName("rpf", coil) = k})],
                UNION {PfNames(coil) : coil \in n..5}
                  \cup (IF iohcl = NoEntry THEN {"iohcl"} ELSE {}))

InitPf ==
    /\ \E n \in 0..MaxCoils, iohcl \in NoEntry..1, z \in {0, 8}, dr \in 1..2, dz \in 1..2 :
          mfile = PfMFile(n, iohcl, z, dr, dz)
    /\ plot_data = BasePlotData
    /\ Idle

NextPf ==
    \/ PlotPfCoils
    \/ Return

SpecPf == InitPf /\ [][NextPf]_vars

(* The curve constructors on their own arguments *)

\* the curve constructors are called on their own arguments; the renderers on
\* a build of unit widths and on the degenerate build whose widths are all 0
InitCurve ==
    /\ \E pat \in {"flat", "zero"} :
          /\ mfile = MFile(pat, 0, [what |-> "none", name |-> "", v |-> 0])
          /\ plot_data = PlotData(pat, 0, [what |-> "none", name |-> "", v |-> 0], mfile)
    /\ Idle

NextCurve ==
    \/ Plotdh
    \/ Plotdhgap
    \/ PlotVacuumVessel
    \/ PlotShield
    \/ Return

SpecCurve == InitCurve /\ [][NextCurve]_vars

---------------------------------------------------------------------------
(* What the claims are stated against: the tables read position by position *)

N == Len(RADIAL_BUILD)

\* the key a name of RADIAL_BUILD stands for
KeyOf(name) ==
    IF name \in {"rminori", "rminoro"} THEN "rminor"
    ELSE IF name \in {"vvblgapi", "vvblgapo"} THEN "vvblgap"
    ELSE name

\* the keys whose value the radial accumulation takes from the PlotData instance
PlotDataKeys == {"rminor", "vvblgap", "d_vv_in", "d_vv_out"}

\* the value held under key k: in the PlotData instance or in the resolver
Lookup(k) == IF k \in PlotDataKeys THEN plot_data[k] ELSE GetScan(mfile, k)

\* the resolved value of the segment at position i of RADIAL_BUILD
SegValue(i) == Lookup(KeyOf(RADIAL_BUILD[i]))

\* the sum of the resolved values of positions 1..i
RECURSIVE PrefixSum(_)
PrefixSum(i) == IF i = 0 THEN 0 ELSE PrefixSum(i - 1) + SegValue(i)

\* the positions at which a name occurs, and the first of them
Positions(name) == {i \in 1..N : RADIAL_BUILD[i] = name}

FirstPos(name) == CHOOSE i \in Positions(name) : \A j \in Positions(name) : i <= j

IsFirst(i) == i = FirstPos(RADIAL_BUILD[i])

\* the state after a call of cumulative_radial_build / create_radial_build
AfterCrb == last = "cumulative_radial_build"

AfterCreate == last = "create_radial_build"

Found == AfterCrb /\ args[1] \in Range(RADIAL_BUILD)

\* the sum of resolver values along a vertical table, positions 1..i
RECURSIVE VertSum(_, _)
VertSum(seq, i) == IF i = 0 THEN 0 ELSE VertSum(seq, i - 1) + GetScan(mfile, seq[i])

---------------------------------------------------------------------------
(* C1 *)

---------------------------------------------------------------------------
(* C2 *)

\* C2: create_radial_build builds the vertical tables by a signed running
\* sum: cumulative_upper[S_i] = cumulative_upper[S_(i-1)] + upper[S_i] along
\* vertical_upper and cumulative_lower[S_i] = cumulative_lower[S_(i-1)] -
\* lower[S_i] along vertical_lower, each starting from 0, where upper[S] and
\* lower[S] are the resolver's values.
C2_SignedRunningSum ==
    AfterCreate =>
        LET upper == ret[1]
            lower == ret[2]
            cumulative_upper == ret[3]
            cumulative_lower == ret[4]
        IN  /\ DOMAIN upper = Range(vertical_upper)
            /\ DOMAIN cumulative_upper = Range(vertical_upper)
            /\ DOMAIN lower = Range(vertical_lower)
            /\ DOMAIN cumulative_lower = Range(vertical_lower)
            /\ \A i \in 1..Len(vertical_upper) :
                  /\ upper[vertical_upper[i]] = GetScan(mfile, vertical_upper[i])
                  /\ cumulative_upper[vertical_upper[i]] =
                        (IF i = 1 THEN 0 ELSE cumulative_upper[vertical_upper[i - 1]])
                          + upper[vertical_upper[i]]
            /\ \A i \in 1..Len(vertical_lower) :
                  /\ lower[vertical_lower[i]] = GetScan(mfile, vertical_lower[i])
                  /\ cumulative_lower[vertical_lower[i]] =
                        (IF i = 1 THEN 0 ELSE cumulative_lower[vertical_lower[i - 1]])
                          - lower[vertical_lower[i]]

\* the tables of a resolver whose values make the two signs tell apart
C2_Witness ==
    /\ AfterCreate
    /\ ret[3]["vgaptop"] > ret[3]["rminor*kappa"]
    /\ ret[4]["vgap"] < ret[4]["rminor*kappa"]
    /\ ret[4]["tfcth"] < 0
    /\ ret[3]["tfcth"] > 0

---------------------------------------------------------------------------
(* C3 *)

\* C3: the cumulative value of the last segment is the sum of all segment
\* values: cumulative_radial_build("tfthko") is the sum of the resolved
\* values of all entries of RADIAL_BUILD, and the last entries of
\* cumulative_upper and cumulative_lower are plus and minus the sum of all
\* their segment values.
C3_LastIsTotal ==
    /\ (AfterCrb /\ args[1] = RADIAL_BUILD[N]) => ret[1] = PrefixSum(N)
    /\ AfterCreate =>
          /\ ret[3][vertical_upper[Len(vertical_upper)]]
                = VertSum(vertical_upper, Len(vertical_upper))
          /\ ret[4][vertical_lower[Len(vertical_lower)]]
                = 0 - VertSum(vertical_lower, Len(vertical_lower))

\* the call for the last segment, on an input whose total is not the flat 26
C3_Witness ==
    /\ AfterCrb
    /\ args[1] = "tfthko"
    /\ ret[1] = PrefixSum(N)
    /\ ret[1] # N

---------------------------------------------------------------------------
(* C4 *)

RadialNonNegative == \A i \in 1..N : SegValue(i) >= 0

VerticalNonNegative ==
    \A k \in Range(vertical_upper) \cup Range(vertical_lower) : GetScan(mfile, k) >= 0

\* the value before position i of a sequence of running totals
Before(t, i) == IF i = 1 THEN 0 ELSE t[i - 1]

\* C4: with non-negative segment values, the vertical-lower cumulative
\* values are non-positive and non-increasing along vertical_lower, and the
\* vertical-upper and radial cumulative values are non-negative and
\* non-decreasing along vertical_upper and RADIAL_BUILD (the radial ones
\* being the values cumulative_build takes, position after position, and
\* the value returned).
C4_Monotone ==
    /\ (AfterCrb /\ RadialNonNegative) =>
          /\ \A i \in 1..Len(trace) : trace[i] >= 0 /\ trace[i] >= Before(trace, i)
          /\ ret[1] >= 0
    /\ (AfterCreate /\ VerticalNonNegative) =>
          /\ \A i \in 1..Len(vertical_upper) :
                /\ ret[3][vertical_upper[i]] >= 0
                /\ i > 1 => ret[3][vertical_upper[i]] >= ret[3][vertical_upper[i - 1]]
          /\ \A i \in 1..Len(vertical_lower) :
                /\ ret[4][vertical_lower[i]] <= 0
                /\ i > 1 => ret[4][vertical_lower[i]] <= ret[4][vertical_lower[i - 1]]

\* tables of non-negative values with a zero among them: the lower table
\* goes down, and stays level across the zero
C4_Witness ==
    /\ AfterCreate
    /\ VerticalNonNegative
    /\ GetScan(mfile, "divfix") = 0
    /\ ret[4]["divfix"] = ret[4]["vgap"]
    /\ ret[4]["shldlth"] < ret[4]["divfix"]

---------------------------------------------------------------------------
(* C5 *)

NotFoundLine == <<"not found", args[1]>>

\* C5: when the requested section never occurs in RADIAL_BUILD,
\* cumulative_radial_build does not raise, returns the total over the full
\* sequence, and prints the "not found" diagnostic exactly when verbose.
C5_NotFound ==
    (AfterCrb /\ args[1] \notin Range(RADIAL_BUILD)) =>
        /\ err = "none"
        /\ ret[1] = PrefixSum(N)
        /\ Len(trace) = N
        /\ (NotFoundLine \in Range(log)) <=> args[3]

\* the silent call for a name that is not there
C5_Witness ==
    /\ AfterCrb
    /\ args[1] = NoSuchSection
    /\ args[3] = FALSE
    /\ NotFoundLine \notin Range(log)
    /\ ret[1] = PrefixSum(N)

---------------------------------------------------------------------------
(* C6 *)

\* C6: with with_previous=True and a section present in RADIAL_BUILD the
\* function returns the pair (cumulative including the section, cumulative
\* excluding it), the second being the cumulative value of the position just
\* before the section (0 when the section is first); with
\* with_previous=False it returns the first element alone.
C6_WithPrevious ==
    Found =>
        LET i == FirstPos(args[1])
        IN  IF args[2] THEN ret = <<PrefixSum(i), PrefixSum(i - 1)>>
            ELSE ret = <<PrefixSum(i)>>

\* the pair toroidal_cross_section takes for the outboard TF leg
C6_Witness ==
    /\ Found
    /\ args[1] = "tfthko"
    /\ args[2]
    /\ Len(ret) = 2
    /\ ret[2] = PrefixSum(N - 1)
    /\ ret[1] # ret[2]

---------------------------------------------------------------------------
(* C7 *)

\* C7: alias resolution in the radial accumulation is a name-to-key
\* substitution: "rminori" and "rminoro" both add the one minor-radius
\* value, "vvblgapi" and "vvblgapo" both add the one vvblgap value, every
\* other name adds the value held under its own name, and the segments are
\* added in the order of RADIAL_BUILD.
C7_AliasSubstitution ==
    AfterCrb =>
        /\ Len(trace) = (IF Found THEN FirstPos(args[1]) ELSE N)
        /\ \A i \in 1..Len(trace) :
              trace[i] - Before(trace, i) = Lookup(KeyOf(RADIAL_BUILD[i]))
        /\ (Found /\ args[2]) => ret[1] - ret[2] = Lookup(KeyOf(args[1]))

\* a resolver that holds a value under the alias name itself, different from
\* the minor radius: the minor radius is what is added
C7_Witness ==
    /\ Found
    /\ args[1] = "rminoro"
    /\ args[2]
    /\ Exists(mfile, "rminoro")
    /\ mfile.vals["rminoro"] # plot_data.rminor
    /\ ret[1] - ret[2] = plot_data.rminor
    /\ trace[15] - trace[14] = plot_data.rminor

---------------------------------------------------------------------------
(* C8 *)

\* the segment at position i is read from the resolver and is not there
Absent(i) == KeyOf(RADIAL_BUILD[i]) \notin PlotDataKeys /\ ~Exists(mfile, RADIAL_BUILD[i])

\* the sum of the values of the segments of positions 1..i that are present
RECURSIVE PresentSum(_)
PresentSum(i) ==
    IF i = 0 THEN 0
    ELSE PresentSum(i - 1)
           + (IF Absent(i) THEN 0
              ELSE IF KeyOf(RADIAL_BUILD[i]) \in PlotDataKeys
                     THEN plot_data[KeyOf(RADIAL_BUILD[i])]
              ELSE mfile.vals[RADIAL_BUILD[i]])

\* C8: if a segment of the radial sequence is absent from the resolver,
\* cumulative_radial_build for a later segment still returns, without
\* raising and with a warning for the absent segment, the sum of the values
\* of the segments that are present up to and including the requested one.
C8_MissingSegment ==
    (Found /\ \E j \in 1..FirstPos(args[1]) : Absent(j)) =>
        /\ err = "none"
        /\ ret[1] = PresentSum(FirstPos(args[1]))
        /\ \A j \in 1..FirstPos(args[1]) :
              Absent(j) => <<"missing", RADIAL_BUILD[j]>> \in Range(log)

\* the five-segment scenario: the third segment absent, the fifth asked for
C8_Witness ==
    /\ Found
    /\ Absent(3)
    /\ args[1] = RADIAL_BUILD[5]
    /\ err = "none"
    /\ ret[1] = mfile.vals["bore"] + mfile.vals["ohcth"] + mfile.vals["gapoh"]
                  + mfile.vals["tfcth"]
    /\ <<"missing", "precomp">> \in Range(log)

---------------------------------------------------------------------------
(* The component renderers and the null-topology flag *)

Renderers == {"plot_vacuum_vessel", "plot_shield", "plot_blanket", "plot_firstwall"}

\* a renderer has been called and no division by a zero width ended it early
AfterRender == last \in Renderers /\ err # "ZeroDivisionError"

\* the null-topology flag as the renderer called reads it
FlagRead ==
    IF last \in {"plot_blanket", "plot_firstwall"} THEN plot_data.i_single_null
    ELSE GetScan(mfile, "i_single_null")

\* the halves of the machine the shapes drawn were built for
Halves == {sink[k].half : k \in 1..Len(sink)}

\* the filled shapes drawn for one half, in the order drawn
Fills(half) == SelectSeq(sink, LAMBDA s : s.op = "fill" /\ s.half = half)

\* C9: for each of the vacuum vessel, shield, blanket and first wall, a flag
\* of 0 produces the lower-half shape plus its mirror image and no explicit
\* upper half; every flag below 0 and every flag above 0 produces exactly one
\* explicit upper-half shape and one explicit lower-half shape, with no
\* reflection.
C9_FlagTopology ==
    AfterRender =>
        IF FlagRead = 0
          THEN /\ Halves = {"lower", "mirror"}
               /\ Len(Fills("mirror")) = Len(Fills("lower"))
        ELSE /\ Halves = {"upper", "lower"}
             /\ Len(Fills("upper")) = 1

\* C10: in double null (flag 0), for every component rendered by reflection the
\* upper-half point sequence is the lower-half point sequence with every z
\* negated and every r unchanged, point by point, on the outer and on the
\* inner boundary.
C10_MirrorPointwise ==
    (AfterRender /\ err = "none" /\ FlagRead = 0) =>
        /\ Len(Fills("mirror")) = Len(Fills("lower"))
        /\ \A k \in 1..Len(Fills("mirror")) :
              /\ Fills("mirror")[k].rs = Fills("lower")[k].rs
              /\ Fills("mirror")[k].zs = Negate(Fills("lower")[k].zs)

\* the PlotData fields agree with the resolver they were read from
PdConsistent ==
    \A k \in PdFields \cap Keys : k \in mfile.keys /\ plot_data[k] = mfile.vals[k]

\* the radii at z = 0 of a polygon stitched from two plotdh curves: outboard
\* and inboard on the outer boundary, inboard and outboard on the inner one
StitchRadii(f) == <<f.rs[1], f.rs[NPts], f.rs[NPts + 1], f.rs[2 * NPts]>>

\* the same radii of the two polygons of plotdhgap (outboard fo, inboard fi)
GapRadii(fo, fi) == <<fo.rs[1], fi.rs[1], fi.rs[2 * NPts], fo.rs[2 * NPts]>>

\* the radii at z = 0 of the lower half drawn by the renderer called
LowerRadii ==
    IF last \in {"plot_blanket", "plot_firstwall"}
      THEN GapRadii(Fills("lower")[1], Fills("lower")[2])
    ELSE StitchRadii(Fills("lower")[1])

\* a single-null render that drew an explicit upper and an explicit lower half
SingleNullDrawn ==
    /\ last \in Renderers
    /\ err = "none"
    /\ FlagRead = 1
    /\ PdConsistent

\* C11: in a single-null render with explicit upper and lower halves, for each
\* of the vacuum vessel, shield, blanket and first wall the upper-half and the
\* lower-half shapes have the same boundary radii at z = 0, inboard and
\* outboard, on the outer and on the inner boundary.
C11_SharedRadii ==
    SingleNullDrawn =>
        /\ Len(Fills("upper")) = 1
        /\ StitchRadii(Fills("upper")[1]) = LowerRadii

---------------------------------------------------------------------------
(* The curve constructors *)

\* the shapes of the sink that one call (plot or fill) drew
Drawn(op) == SelectSeq(sink, LAMBDA s : s.op = op)

\* a polygon whose first point is its last point
Closed(f) == f.rs[1] = f.rs[Len(f.rs)] /\ f.zs[1] = f.zs[Len(f.zs)]

\* C13: each polygon that plotdhgap stitches (outer arc forward, then inner
\* arc reversed) is closed: its first point equals its last point, for every
\* triangularity in [-1, 1] and every thickness.
C13_PolygonClosed ==
    (last = "plotdhgap" /\ err = "none") =>
        \A k \in 1..Len(Drawn("fill")) : Closed(Drawn("fill")[k])

\* C14: the point sequence plotdh(r0, a, delta, kap) returns starts at
\* (r0 + a, 0), ends at (r0 - a, 0), and contains the peak point of theta =
\* pi/2, whose z is kap * a.
C14_StartEndPeak ==
    last = "plotdh" =>
        /\ ret[1][1] = args[1] + args[2] /\ ret[2][1] = 0
        /\ ret[1][NPts] = args[1] - args[2] /\ ret[2][NPts] = 0
        /\ \E k \in 1..NPts : ret[2][k] = FMul(args[4], args[2])

---------------------------------------------------------------------------
(* The current-drive panel *)

AfterDrive == last = "plot_current_drive_info"

Recognised == 1..12

\* the selector is outside the recognised values
BadPrimary == GetScan(mfile, "iefrf") \notin Recognised

\* the secondary selector is present and outside the recognised values
BadSecondary ==
    Exists(mfile, "iefrffix") /\ GetScan(mfile, "iefrffix") \notin Recognised

\* C17 as stated: plot_current_drive_info raises whenever iefrf, or iefrffix
\* when present, is outside {1,...,12}, and in that case nothing has been
\* written to the current-drive axis.
C17_AsStated ==
    (AfterDrive /\ (BadPrimary \/ BadSecondary)) => (err # "none" /\ sink = << >>)

\* C17: plot_current_drive_info raises whenever iefrf, or iefrffix when
\* present, is outside {1,...,12}. Nothing has been written when iefrf is not
\* one of the implemented selectors; when iefrf is implemented and only
\* iefrffix is outside the range, the title of the panel, and nothing else,
\* has been written before the ValueError.
C17_UnknownSelectorRaises ==
    (AfterDrive /\ (BadPrimary \/ BadSecondary)) =>
        /\ err \in DriveErrors
        /\ BadPrimary => (err = "ValueError" /\ sink = << >>)
        /\ DriveOf(GetScan(mfile, "iefrf")) \in DriveErrors => sink = << >>
        /\ DriveOf(GetScan(mfile, "iefrf")) \notin DriveErrors =>
              /\ err = "ValueError"
              /\ sink = << Text(DriveTitle(DriveOf(GetScan(mfile, "iefrf")))) >>

\* a neutral-beam run whose secondary selector is 0: the title is on the axis
\* when the ValueError is raised
C17_Witness ==
    /\ AfterDrive
    /\ GetScan(mfile, "iefrf") = 5
    /\ Exists(mfile, "iefrffix") /\ GetScan(mfile, "iefrffix") = 0
    /\ err = "ValueError"
    /\ sink = << Text("Neutral Beam Current Drive:") >>

---------------------------------------------------------------------------
(* The TF coils and the magnet technology *)

AfterTfCoils == last = "plot_tf_coils"

\* the patches of one kind handed to the axis
Patches(kind) == SelectSeq(sink, LAMBDA s : s.op = "add_patch" /\ s.kind = kind)

\* the coil-shape selector as plot_tf_coils takes it: 1 when the name is absent
ShapeSelector == Selector(mfile, "i_tf_shape", 1)

\* C15: plot_tf_coils emits exactly four rectangles and no elliptical-sector
\* patch when the coil-shape selector is picture-frame (i_tf_shape = 2), and
\* exactly four elliptical-sector patches plus one rectangular vertical leg
\* when the selector is D-shape (1, or absent).
C15_CoilShapeCounts ==
    AfterTfCoils =>
        /\ ShapeSelector = 2 =>
              /\ Len(sink) = 4
              /\ Len(Patches("Rectangle")) = 4
              /\ Len(Patches("PathPatch")) = 0
        /\ ShapeSelector = 1 =>
              /\ Len(sink) = 5
              /\ Len(Patches("PathPatch")) = 4
              /\ Len(Patches("Rectangle")) = 1
              /\ sink[5].kind = "Rectangle"
              /\ sink[5].width = plot_data.tfcth

\* a picture-frame coil has been drawn: four rectangles, the inboard leg first
C15_Witness ==
    /\ AfterTfCoils
    /\ Exists(mfile, "i_tf_shape") /\ GetScan(mfile, "i_tf_shape") = 2
    /\ Len(Patches("Rectangle")) = 4
    /\ sink[1] = Rectangle(3, 3, 1, 2, "cyan")

\* C16: an unrecognised coil-shape selector (i_tf_shape present and neither 1
\* nor 2) is a fatal configuration error in plot_tf_coils: the call raises and
\* no coil shape is drawn for it.
C16_UnknownShapeFatal ==
    (AfterTfCoils /\ Exists(mfile, "i_tf_shape")
       /\ GetScan(mfile, "i_tf_shape") \notin {1, 2}) =>
        (err # "none" /\ sink = << >>)

\* the magnet-technology flag is absent from the resolver
NoTfSup == ~Exists(mfile, "i_tf_sup")

\* the winding-pack rectangles of the toroidal cross-section
WindingDrawn == SelectSeq(Patches("Rectangle"), LAMBDA s : s.color = winding)

---------------------------------------------------------------------------
(* Degenerate geometry *)

\* C19: every curve constructor guards a zero half-width before it is used as
\* a divisor: plotdhgap with inpt = outpt, and plot_vacuum_vessel and
\* plot_shield with a zero radial half-width, never divide by zero.
C19_DegenerateGuarded ==
    last \in {"plotdhgap", "plot_vacuum_vessel", "plot_shield"} =>
        err # "ZeroDivisionError"

---------------------------------------------------------------------------
(* The angular spans of the plasma boundary *)

AfterPlasma == last = "plot_plasma" /\ err = "none"

\* a span reflected in the midplane: an angle t about pi goes to 2 pi - t, an
\* angle t about 0 to -t
MirrorSpans(s) ==
    [angs1 |-> << 2 * Pi - s.angs1[2], 2 * Pi - s.angs1[1] >>,
     angs2 |-> << 0 - s.angs2[2], 0 - s.angs2[1] >>]

\* the two lines drawn run over the spans s
DrawnOver(g, s) ==
    /\ Len(sink) = 4
    /\ \A k \in {1, NPlasma} :
          /\ sink[1].zs[k] = FMul(g.r1, Sin(s.angs1[IF k = 1 THEN 1 ELSE 2]))
          /\ sink[2].zs[k] = FMul(g.r2, Sin(s.angs2[IF k = 1 THEN 1 ELSE 2]))

\* both ends of both spans are extended past the extremum angle by the same
\* amount, and the lines drawn end at mirrored points
SymmetricSpans(g, s) ==
    /\ s.angs1 = << Pi - (g.inang + g.theta1), Pi + (g.inang + g.theta1) >>
    /\ s.angs2 = << 0 - (g.outang + g.theta2), g.outang + g.theta2 >>
    /\ s = MirrorSpans(s)
    /\ \A c \in 1..2 : /\ sink[c].zs[1] = 0 - sink[c].zs[NPlasma]
                       /\ sink[c].rs[1] = sink[c].rs[NPlasma]

\* each span ends at the extremum angle on one side of the midplane and is
\* extended past it on the other, the same side for both arcs; the truncated
\* end of each line is at the height of the extremum, kappa * a, to the last
\* digits
OneSidedSpans(v, g, s) ==
    /\ \/ /\ s.angs1 = << Pi - (g.inang + g.theta1), Pi + g.theta1 >>
          /\ s.angs2 = << 0 - g.theta2, g.outang + g.theta2 >>
          /\ Abs(sink[1].zs[NPlasma] + FMul(v.kappa, v.a)) <= 5
          /\ Abs(sink[2].zs[1] + FMul(v.kappa, v.a)) <= 5
       \/ /\ s.angs1 = << Pi - g.theta1, Pi + (g.inang + g.theta1) >>
          /\ s.angs2 = << 0 - (g.outang + g.theta2), g.theta2 >>
          /\ Abs(sink[1].zs[1] - FMul(v.kappa, v.a)) <= 5
          /\ Abs(sink[2].zs[NPlasma] - FMul(v.kappa, v.a)) <= 5
    /\ g.inang > 0 /\ g.outang > 0

SpanLaw(v, g, s, opposite) ==
    /\ DrawnOver(g, s)
    /\ v.i_single_null = 0 => SymmetricSpans(g, s)
    /\ v.i_single_null # 0 => /\ OneSidedSpans(v, g, s)
                              /\ opposite = MirrorSpans(s)
                              /\ opposite # s

\* C20: in plot_plasma the angular spans of the two boundary arcs are, for
\* flag 0, symmetric about the midplane with the full extension on both sides;
\* for a flag other than 0 each arc is truncated to the extremum angle on one
\* side and extended on the other, and the spans of the flags below 0 are the
\* exact midplane mirror image of the spans of the flags above 0.
C20_SpanTopology ==
    AfterPlasma =>
        \A v \in {PlasmaReads(plot_data)} :
            \A g \in {PlasmaGeometry(v)} :
                SpanLaw(v, g, PlasmaSpans(g, v.i_single_null),
                        PlasmaSpans(g, 0 - v.i_single_null))

\* a flag below 0, unit minor radius and elongation: the arc about pi starts
\* past the upper extremum and stops at the lower extremum, z = -kappa * a
C20_Witness ==
    /\ AfterPlasma
    /\ plot_data.i_single_null < 0
    /\ plot_data.rminor = 1 /\ plot_data.triang95 = 0 /\ plot_data.kappa95 = Scale
    /\ sink[1].zs[1] = 853
    /\ sink[1].zs[NPlasma] = 0 - 1140

---------------------------------------------------------------------------
(* The drawing order of the poloidal cross-section *)

\* C12: in one poloidal_cross_section call the components are handed to the
\* axis back to front: the vacuum vessel is the first component drawn and the
\* plasma is the last component drawn.
C12_VesselFirstPlasmaLast ==
    last = "poloidal_cross_section" =>
        /\ trace # << >>
        /\ trace[1] = "plot_vacuum_vessel"
        /\ trace[Len(trace)] = "plot_plasma"

---------------------------------------------------------------------------
(* The angular ranges of plotdhgap *)

\* the height kap1 * a1 * sin(theta) of the outer boundary of the call made, at
\* the angle theta
GapHeight(theta) ==
    FMul(FMul(Ratio(Fx(args[5]), Half(args[1] + args[2]) - Fx(args[1])),
              Half(args[1] + args[2]) - Fx(args[1])),
         Sin(theta))

\* C21: plotdhgap restricts the outboard arcs to theta in [0, pi/2 - arcgap/2]
\* and the inboard arcs to the mirror range of the same extent ending at pi,
\* so that the opening at the top has angular width arcgap = pi/4: both outer
\* arcs start on the midplane and end at the height of theta = pi/2 - arcgap/2.
C21_GapExtent ==
    (last = "plotdhgap" /\ err = "none") =>
        /\ Drawn("plot")[1].zs[1] = 0
        /\ Drawn("plot")[2].zs[1] = 0
        /\ Drawn("plot")[1].zs[NPts] = GapHeight(HalfPi - FDiv(FDiv(Pi, 4), 2))
        /\ Drawn("plot")[2].zs[NPts] = GapHeight(HalfPi - FDiv(FDiv(Pi, 4), 2))

---------------------------------------------------------------------------
(* The line colours *)

\* C23: after any sequence of get_line_colour calls, every call with a given
\* run title returns the colour that the first call with that title returned,
\* however many other titles are requested in between; the colour cached is
\* that colour.
C23_ColourCached ==
    \A i \in 1..Len(trace) : \A j \in i..Len(trace) :
        trace[i][1] = trace[j][1] =>
            /\ trace[j][2] = trace[i][2]
            /\ colour_map[trace[i][1]] = trace[i][2]

\* a title requested first, then two other titles, then the first title again
C23_Witness ==
    /\ Len(trace) = 4
    /\ trace[1] = << "baseline", "#1f77b4" >>
    /\ trace[2][1] = "stellarator"
    /\ trace[3][1] = "large tokamak"
    /\ trace[4] = << "baseline", "#1f77b4" >>
    /\ colours = 4

---------------------------------------------------------------------------
(* PlotData.from_mfile *)

\* the fields other than the six magnet fields and the four build tables
ScalarFields == PlotDataDeclared \ (Range(mag_cond) \cup Range(rad_cond))

\* C24: PlotData.from_mfile(m_file, scan) returns an instance in which every
\* field other than the six magnet fields and the four build tables holds the
\* resolver's value of the variable with the same name as the field.
C24_FieldsByName ==
    last = "from_mfile" =>
        /\ err = "none"
        /\ \A f \in ScalarFields : ret[1][f] = GetScan(mfile, f)

---------------------------------------------------------------------------
(* PlotData.process_tf *)

\* C25: PlotData.process_tf: with superconducting magnets (i_tf_sup 1 or
\* absent) wwp2 is None when the integer-turns flag is not 0 and is the
\* resolver's wwp2 value when the flag is 0 or absent, and the other five magnet
\* fields hold their resolver values; with other magnets all six are None.
C25_MagnetFields ==
    last = "process_tf" =>
        IF TfSup(mfile) = 1
          THEN /\ ret[1]["wwp2"] = (IF TfTurnsInteger(mfile) = 0
                                      THEN Some(GetScan(mfile, "wwp2")) ELSE None)
               /\ \A k \in Range(mag_cond) \ {"wwp2"} :
                     ret[1][k] = Some(GetScan(mfile, k))
        ELSE \A k \in Range(mag_cond) : ret[1][k] = None

---------------------------------------------------------------------------
(* The PF coils *)

AfterPfCoils == last = "plot_pf_coils" /\ err = "none"

\* C22: in plot_pf_coils, when a central solenoid is present (iohcl absent or
\* not 0) the last rpf[...] entry is the solenoid and is not drawn, so exactly
\* number_of_coils - 1 outlines are drawn; when there is none (iohcl = 0)
\* exactly number_of_coils outlines are drawn, none for an index beyond the
\* rpf[...] entries there are.
C22_OutlineCount ==
    (AfterPfCoils /\ NumberOfCoils(mfile) >= 1) =>
        Len(Drawn("plot")) = IF Selector(mfile, "iohcl", 1) = 0
                               THEN NumberOfCoils(mfile)
                             ELSE NumberOfCoils(mfile) - 1

\* C29: for every PF coil drawn by plot_pf_coils the outline is the closed
\* rectangle centred at (r, z) with width dr and height dz: its r coordinates
\* are r - dr/2 and r + dr/2, its z coordinates z - dz/2 and z + dz/2, and its
\* first and last points coincide.
C29_OutlineRectangle ==
    AfterPfCoils =>
        \A k \in 1..Len(Drawn("plot")) :
            /\ Range(Drawn("plot")[k].rs)
                 = {Fx(GetScan(mfile, PfName("rpf", k - 1)))
                      - Half(GetScan(mfile, PfName("pfdr", k - 1))),
                    Fx(GetScan(mfile, PfName("rpf", k - 1)))
                      + Half(GetScan(mfile, PfName("pfdr", k - 1)))}
            /\ Range(Drawn("plot")[k].zs)
                 = {Fx(GetScan(mfile, PfName("zpf", k - 1)))
                      - Half(GetScan(mfile, PfName("pfdz", k - 1))),
                    Fx(GetScan(mfile, PfName("zpf", k - 1)))
                      + Half(GetScan(mfile, PfName("pfdz", k - 1)))}
            /\ Closed(Drawn("plot")[k])

---------------------------------------------------------------------------
(* The anchor points of the TF coil *)

\* C27: plot_tf_coils takes the horizontal coordinates of the five anchor
\* points from xarc(1..5) and the vertical ones from yarc(1..5): the straight
\* leg drawn last starts at (xarc(1), yarc(1)) in the picture frame and at
\* height yarc(5) in the D shape, and the "yarc(3) is not zero" diagnostic is
\* printed exactly when the resolver's yarc(3) is not 0.
C27_AnchorPoints ==
    AfterTfCoils =>
        /\ (log # << >>) <=> (GetScan(mfile, "yarc(3)") # 0)
        /\ Selector(mfile, "i_tf_shape", 1) = 2 =>
              /\ sink[4].x = GetScan(mfile, "xarc(1)")
              /\ sink[4].y = GetScan(mfile, "yarc(1)")
        /\ Selector(mfile, "i_tf_shape", 1) # 2 =>
              /\ sink[5].x = GetScan(mfile, "xarc(5)") - plot_data.tfcth
              /\ sink[5].y = GetScan(mfile, "yarc(5)")

---------------------------------------------------------------------------
(* The outboard TF coil segments *)

\* the closed paths TF_outboard handed to the axis
OutboardPaths == SelectSeq(sink, LAMBDA s : s.op = "add_patch" /\ s.kind = "TF_outboard")

\* C28: TF_outboard adds a closed quadrilateral with exactly four vertices, one
\* for each radius of (r3, r4, r4, r3), offset by +w or -w across the coil
\* centreline so that two vertices lie on each side of it.
C28_FourVertices ==
    last = "toroidal_cross_section" =>
        \A k \in 1..Len(OutboardPaths) : Len(OutboardPaths[k].verts) = 4

---------------------------------------------------------------------------
(* The boundary between the vacuum vessel and the shield *)

\* the lines drawn for one half, in the order drawn
Lines(shapes, half) == SelectSeq(shapes, LAMBDA s : s.op = "plot" /\ s.half = half)

\* the halves in which both boundaries of a component are drawn explicitly
HalvesDrawn(i_single_null) == IF i_single_null = 1 THEN {"upper", "lower"} ELSE {"lower"}

\* the centre radius, the half-width and the height over the half-width of
\* the vessel's inner boundary (v) are those of the shield's outer boundary (s)
SameParameters(v, s, half) ==
    /\ Half(v.c_shldoth + v.c_d_vv_in) = Half(s.c_shldoth + s.c_d_vv_in)
    /\ Half(v.c_shldoth - v.c_d_vv_in) = Half(s.c_shldoth - s.c_d_vv_in)
    /\ v.triang = s.triang
    /\ IF half = "upper" THEN v.cu_top - v.u_top = s.cu_shldtth
       ELSE v.cl_bot + v.l_bot = s.cl_shldlth

\* the vessel's second line of a half is the shield's first line of that half
SameLine(vesselShapes, shieldShapes, half) ==
    /\ Len(Lines(vesselShapes, half)) = 2
    /\ Len(Lines(shieldShapes, half)) = 2
    /\ Lines(vesselShapes, half)[2] = Lines(shieldShapes, half)[1]

\* C30: for the same inputs the inner boundary of the vacuum vessel and the
\* outer boundary of the shield are built with the same centre radius,
\* half-width and elongation, in the lower half always and in the upper half
\* when i_single_null is 1, so that the two lines drawn coincide point by point.
C30_SharedBoundary ==
    (last = "plot_vacuum_vessel" /\ err = "none") =>
        \A r \in {plot_shield(mfile, plot_data)} :
            r.err = "none" =>
                \A half \in HalvesDrawn(GetScan(mfile, "i_single_null")) :
                    /\ SameParameters(VesselReads(mfile, plot_data),
                                      ShieldReads(mfile, plot_data), half)
                    /\ SameLine(sink, r.sink, half)

\* a single-null build with a vessel top of thickness 2: both halves are drawn
\* and the shared line of the upper half is not the vessel's outer line
C30_Witness ==
    /\ last = "plot_vacuum_vessel" /\ err = "none"
    /\ GetScan(mfile, "i_single_null") = 1
    /\ plot_data.upper["d_vv_top"] = 2
    /\ plot_shield(mfile, plot_data).err = "none"
    /\ Len(Lines(sink, "upper")) = 2
    /\ Lines(sink, "upper")[1] # Lines(sink, "upper")[2]

---------------------------------------------------------------------------
(* The attributes the poloidal components read *)

\* C26: every attribute the poloidal components read from the PlotData is a
\* declared field, so a call of poloidal_cross_section goes through every
\* component to plot_pf_coils, ends without an AttributeError and sets the
\* axis ranges last.
C26_NoAttributeError ==
    (last = "poloidal_cross_section") =>
        /\ err = "none"
        /\ sink[Len(sink)].op = "set_xlim"

===========================================================================
